---- MODULE Spec2Model ----
(***************************************************************************)
(* Hash-table simulators of the repository.                                *)
(*                                                                         *)
(* Part I  models the local hashing simulator (second closure of           *)
(*         src/static/js/arbol.js): the `state` object and its click and   *)
(*         change handlers, each handler run to completion.                *)
(* Part II models the hash.js client together with the /hash engine it     *)
(*         calls (the engine's code is not part of src/; it is modelled    *)
(*         from the specification and the endpoint document).              *)
(***************************************************************************)
EXTENDS Integers, Sequences, FiniteSets, TLC

(***************************************************************************)
(* Bounds of the model.                                                    *)
(***************************************************************************)
MaxSize == 2        \* table sizes sent to /hash/create: 1..MaxSize
MaxTableSize == 3   \* table sizes typed into #size of the simulator: 1..MaxTableSize
MaxKey == 2         \* numeric key values typed into #value-input: 0..MaxKey
MaxDigits == 1      \* digit widths typed into #digits: 1..MaxDigits
MaxStored == 3      \* at most this many values are stored in the simulator table

(***************************************************************************)
(* Program constants.                                                      *)
(***************************************************************************)
NestedSlots == 3    \* Array(3).fill(null) of "anidados"
NULL == -1          \* JavaScript null inside a nested array / "no index"
NaN == -2           \* JavaScript NaN, the result of x % 0

VARIABLES
  \* ---- Part I: arbol.js `state` ----
  size, digits, table, hashFunction, rangeOption, collisionResolution,
  message      \* type of the last showMessage: "" (none), "success", "error"

simVars == <<size, digits, table, hashFunction, rangeOption,
             collisionResolution, message>>

\* ---- Part II: the /hash engine and the hash.js client ----
VARIABLES
  engine,            \* the engine's HashTable: size, digits, slots, hashFn, resolver
  currentState,      \* hash.js: local mirror {size, digits, data}
  currentDigits,     \* hash.js: digit width of the structure last created
  lastValueAttempt,  \* hash.js: raw text of the last insert attempt
  collisionMenu,     \* hash.js: style.display of #collision-menu
  notify             \* hash.js: type of the last notifySuccess / notifyError

clientVars == <<engine, currentState, currentDigits, lastValueAttempt,
                collisionMenu, notify>>

\* ---- Part III: the engine serving several callers ----
VARIABLES
  migration          \* the set-collision in progress, if any: the table being built aside

serverVars == <<migration>>

\* ---- Part IV: the hash.js handlers with their requests in flight ----
VARIABLES
  inflight,          \* the requests sent and not yet answered to their handler
  menuOpenedBy       \* history: raw text of the insert whose answer opened the menu

asyncVars == <<inflight, menuOpenedBy>>

\* ---- Part V: applyHashFunction on its own ----
VARIABLES
  applied            \* the last call of applyHashFunction: its argument and result

hashVars == <<applied>>

\* ---- Part VI: the animations of arbol.js suspended in their sleeps ----
VARIABLES
  animations         \* the insert/search/delete animations started and not yet finished

animVars == <<animations>>

\* ---- Part VII: binaria.js `state` and its search animation ----
VARIABLES
  binSize,           \* binaria.js: state.size
  binDigits,         \* binaria.js: state.digits
  binData,           \* binaria.js: state.data
  binMessage,        \* binaria.js: type of the last showMessage
  binSearches,       \* binaria.js: the binarySearchAnimation calls suspended in a sleep
  binFoundIndex      \* binaria.js: const foundIndex of the searchBtn handler that has just resumed

binVars == <<binSize, binDigits, binData, binMessage, binSearches,
             binFoundIndex>>

\* ---- Part VIII: secuencial.js, the client of /linear-search ----
VARIABLES
  seqSize,           \* secuencial.js: state.size, as last reloaded
  valueInput,        \* text of #value-input: NULL when empty, else the key typed
  insertDisabled,    \* insertBtn.disabled
  seqInserts,        \* the insert click handlers started and not yet finished
  seqNotify          \* the last notification shown: "", "success" or "error"

seqVars == <<seqSize, valueInput, insertDisabled, seqInserts, seqNotify>>

vars == <<simVars, clientVars, serverVars, asyncVars, hashVars, animVars, binVars, seqVars>>

(***************************************************************************)
(* Decimal strings, as sequences of digits, and the String methods used.   *)
(***************************************************************************)
RECURSIVE NumStr(_)
NumStr(n) == IF n < 10 THEN <<n>> ELSE Append(NumStr(n \div 10), n % 10)

RECURSIVE ParseInt(_)
ParseInt(s) ==
  IF Len(s) = 0 THEN NULL
  ELSE IF Len(s) = 1 THEN s[1]
  ELSE 10 * ParseInt(SubSeq(s, 1, Len(s) - 1)) + s[Len(s)]

Clamp(x, n) == IF x < 0 THEN 0 ELSE IF x > n THEN n ELSE x

\* String.prototype.substring(a, b): arguments clamped to [0, length], swapped
\* when a > b.
Substring(s, a, b) ==
  LET ca == Clamp(a, Len(s))
      cb == Clamp(b, Len(s))
      lo == IF ca <= cb THEN ca ELSE cb
      hi == IF ca <= cb THEN cb ELSE ca
  IN SubSeq(s, lo + 1, hi)

RECURSIVE PadStart(_, _)
PadStart(s, n) == IF Len(s) >= n THEN s ELSE PadStart(<<0>> \o s, n)

(***************************************************************************)
(* Cells of state.table: null, a number, or an array (the list of          *)
(* "encadenamiento", the fixed array of "anidados" whose holes are NULL).  *)
(***************************************************************************)
NullCell == [t |-> "null"]
Num(v) == [t |-> "num", v |-> v]
List(vs) == [t |-> "list", vs |-> vs]

IsNull(c) == c.t = "null"
HoldsValue(c, value) == c.t = "num" /\ c.v = value
Includes(vs, value) == \E i \in 1..Len(vs) : vs[i] = value

HashFunctions == {"mod", "cuadrado", "truncamiento", "plegamiento"}
RangeOptions == {"user", "prime"}
OpenAddressing == {"lineal", "cuadratica", "doble"}
CollisionResolutions == OpenAddressing \cup {"anidados", "encadenamiento"}

(***************************************************************************)
(* isPrime / findLargerPrime                                               *)
(***************************************************************************)
isPrime(num) ==
  /\ num > 1
  /\ \A d \in 2..(num - 1) : num % d # 0

RECURSIVE findLargerPrime(_)
findLargerPrime(num) == IF isPrime(num) THEN num ELSE findLargerPrime(num + 1)

(***************************************************************************)
(* applyHashFunction                                                       *)
(***************************************************************************)
RECURSIVE FoldSum(_, _)
FoldSum(valueStr, i) ==
  IF i >= Len(valueStr) THEN 0
  ELSE ParseInt(Substring(valueStr, i, i + 2)) + FoldSum(valueStr, i + 2)

\* variant of applyHashFunction: the index as the steps panel prints it,
\* counted from 1
applyHashFunctionOneBased(value) ==
  1 + (CASE hashFunction = "mod" -> value % size
         [] hashFunction = "cuadrado" ->
              LET squaredStr == NumStr(value * value)
                  mid == (Len(squaredStr) \div 2) - 1
              IN ParseInt(Substring(squaredStr, mid, mid + 2)) % size
         [] hashFunction = "truncamiento" ->
              ParseInt(Substring(NumStr(value), 0, 2)) % size
         [] hashFunction = "plegamiento" ->
              FoldSum(PadStart(NumStr(value), digits), 0) % size
         [] OTHER -> value % size)

\* variant of applyHashFunction: the middle of the square taken one digit
\* further right, mid = floor(len / 2)
applyHashFunctionMidShifted(value) ==
  CASE hashFunction = "mod" -> value % size
    [] hashFunction = "cuadrado" ->
         LET squaredStr == NumStr(value * value)
             mid == Len(squaredStr) \div 2
         IN ParseInt(Substring(squaredStr, mid, mid + 2)) % size
    [] hashFunction = "truncamiento" ->
         ParseInt(Substring(NumStr(value), 0, 2)) % size
    [] hashFunction = "plegamiento" ->
         FoldSum(PadStart(NumStr(value), digits), 0) % size
    [] OTHER -> value % size

applyHashFunction(value) ==
  CASE hashFunction = "mod" -> value % size
    [] hashFunction = "cuadrado" ->
         LET squaredStr == NumStr(value * value)
             mid == (Len(squaredStr) \div 2) - 1
         IN ParseInt(Substring(squaredStr, mid, mid + 2)) % size
    [] hashFunction = "truncamiento" ->
         ParseInt(Substring(NumStr(value), 0, 2)) % size
    [] hashFunction = "plegamiento" ->
         FoldSum(PadStart(NumStr(value), digits), 0) % size
    [] OTHER -> value % size

(***************************************************************************)
(* resolveCollision: the probe loop i = 1 .. tableSize-1 of the three      *)
(* open-addressing methods; the other methods return the index itself.     *)
(***************************************************************************)
\* variant of secondHash: the remainder itself, without the + 1
secondHashRemainder(value) ==
  IF size - 1 = 0 THEN NaN ELSE value % (size - 1)

\* const secondHash = (value % (tableSize - 1)) + 1: NaN when tableSize is 1
secondHash(value) ==
  IF size - 1 = 0 THEN NaN ELSE (value % (size - 1)) + 1

\* variant of ProbeOffset: the linear probe advances two slots at a time
ProbeOffsetDoubled(i, value) ==
  CASE collisionResolution = "lineal" -> 2 * i
    [] collisionResolution = "cuadratica" -> i * i
    [] collisionResolution = "doble" -> i * secondHash(value)

ProbeOffset(i, value) ==
  CASE collisionResolution = "lineal" -> i
    [] collisionResolution = "cuadratica" -> i * i
    [] collisionResolution = "doble" -> i * secondHash(value)

\* variant of ProbeLoop: the loop gives up one attempt early
RECURSIVE ProbeLoopShort(_, _, _, _, _)
ProbeLoopShort(t, index, value, operation, i) ==
  IF i >= size - 1 THEN -1
  ELSE LET probeIndex == (index + ProbeOffset(i, value)) % size
           cell == t[probeIndex + 1]
       IN IF operation = "insert" /\ IsNull(cell) THEN probeIndex
          ELSE IF operation = "search" /\ HoldsValue(cell, value) THEN probeIndex
          ELSE IF operation = "search" /\ IsNull(cell) THEN -1
          ELSE ProbeLoopShort(t, index, value, operation, i + 1)

RECURSIVE ProbeLoop(_, _, _, _, _)
ProbeLoop(t, index, value, operation, i) ==
  IF i >= size THEN -1
  ELSE LET probeIndex == (index + ProbeOffset(i, value)) % size
           cell == t[probeIndex + 1]
       IN IF operation = "insert" /\ IsNull(cell) THEN probeIndex
          ELSE IF operation = "search" /\ HoldsValue(cell, value) THEN probeIndex
          ELSE IF operation = "search" /\ IsNull(cell) THEN -1
          ELSE ProbeLoop(t, index, value, operation, i + 1)

\* resolveCollision reading the table t (state.table at the time of the call)
resolveCollisionIn(t, index, value, operation) ==
  IF collisionResolution \in OpenAddressing
  THEN ProbeLoop(t, index, value, operation, 1)
  ELSE index

resolveCollision(index, value, operation) ==
  resolveCollisionIn(table, index, value, operation)

(***************************************************************************)
(* insertValueAnimation: [ok, index, table] = returned flag, the index the *)
(* steps panel shows, and state.table afterwards.                          *)
(***************************************************************************)
FirstHole(vs) ==
  IF \E i \in 1..Len(vs) : vs[i] = NULL
  THEN CHOOSE i \in 1..Len(vs) : vs[i] = NULL /\ \A j \in 1..(i - 1) : vs[j] # NULL
  ELSE 0

\* variant of InsertChained: the list is not looked through before the push
InsertChainedUnchecked(index, value) ==
  LET cell == IF IsNull(table[index + 1]) THEN List(<<>>) ELSE table[index + 1]
  IN [ok |-> TRUE, index |-> index,
      table |-> [table EXCEPT ![index + 1] = List(Append(cell.vs, value))]]

InsertChained(index, value) ==
  LET cell == IF IsNull(table[index + 1]) THEN List(<<>>) ELSE table[index + 1]
      initialised == [table EXCEPT ![index + 1] = cell]
  IN IF Includes(cell.vs, value)
     THEN [ok |-> FALSE, index |-> index, table |-> initialised]
     ELSE [ok |-> TRUE, index |-> index,
           table |-> [table EXCEPT ![index + 1] = List(Append(cell.vs, value))]]

InsertNested(index, value) ==
  LET cell == IF IsNull(table[index + 1])
              THEN List([i \in 1..NestedSlots |-> NULL])
              ELSE table[index + 1]
      initialised == [table EXCEPT ![index + 1] = cell]
      hole == FirstHole(cell.vs)
  IN IF hole # 0
     THEN [ok |-> TRUE, index |-> index,
           table |-> [table EXCEPT
                        ![index + 1] = List([cell.vs EXCEPT ![hole] = value])]]
     ELSE [ok |-> FALSE, index |-> index, table |-> initialised]

\* variant of InsertOpen: a value that finds no free slot is written over the
\* occupant of its home slot before the failure is reported
InsertOpenOverwriting(index, value) ==
  IF IsNull(table[index + 1])
  THEN [ok |-> TRUE, index |-> index,
        table |-> [table EXCEPT ![index + 1] = Num(value)]]
  ELSE LET newIndex == resolveCollision(index, value, "insert")
       IN IF newIndex = -1
          THEN [ok |-> FALSE, index |-> -1,
                table |-> [table EXCEPT ![index + 1] = Num(value)]]
          ELSE [ok |-> TRUE, index |-> newIndex,
                table |-> [table EXCEPT ![newIndex + 1] = Num(value)]]

InsertOpen(index, value) ==
  IF IsNull(table[index + 1])
  THEN [ok |-> TRUE, index |-> index,
        table |-> [table EXCEPT ![index + 1] = Num(value)]]
  ELSE LET newIndex == resolveCollision(index, value, "insert")
       IN IF newIndex = -1
          THEN [ok |-> FALSE, index |-> -1, table |-> table]
          ELSE [ok |-> TRUE, index |-> newIndex,
                table |-> [table EXCEPT ![newIndex + 1] = Num(value)]]

insertValueAnimation(value) ==
  LET index == applyHashFunction(value)
  IN CASE collisionResolution = "encadenamiento" -> InsertChained(index, value)
       [] collisionResolution = "anidados" -> InsertNested(index, value)
       [] OTHER -> InsertOpen(index, value)

(***************************************************************************)
(* searchValueAnimation: index of the value, or -1.                        *)
(***************************************************************************)
searchIn(t, value) ==
  LET index == applyHashFunction(value)
      cell == t[index + 1]
  IN CASE collisionResolution = "encadenamiento" ->
            IF ~IsNull(cell) /\ Includes(cell.vs, value) THEN index ELSE -1
       [] collisionResolution = "anidados" ->
            IF ~IsNull(cell) /\ Includes(cell.vs, value) THEN index ELSE -1
       [] OTHER ->
            IF HoldsValue(cell, value) THEN index
            ELSE IF IsNull(cell) THEN -1
            ELSE resolveCollisionIn(t, index, value, "search")

searchValueAnimation(value) == searchIn(table, value)

(***************************************************************************)
(* deleteValueAnimation: [ok, index, table].                               *)
(***************************************************************************)
IndexOf(vs, value) == CHOOSE i \in 1..Len(vs) :
                        vs[i] = value /\ \A j \in 1..(i - 1) : vs[j] # value

Splice(vs, i) == SubSeq(vs, 1, i - 1) \o SubSeq(vs, i + 1, Len(vs))

DeletedCell(cell, value) ==
  CASE collisionResolution = "encadenamiento" ->
         List(Splice(cell.vs, IndexOf(cell.vs, value)))
    [] collisionResolution = "anidados" ->
         List([cell.vs EXCEPT ![IndexOf(cell.vs, value)] = NULL])
    [] OTHER -> NullCell

\* deleteValueAnimation reading the table t (state.table at the time of the call)
deleteIn(t, value) ==
  LET index == searchIn(t, value)
  IN IF index = -1
     THEN [ok |-> FALSE, index |-> -1, table |-> t]
     ELSE [ok |-> TRUE, index |-> index,
           table |-> [t EXCEPT ![index + 1] = DeletedCell(t[index + 1], value)]]

deleteValueAnimation(value) == deleteIn(table, value)

(***************************************************************************)
(* What the user types.  #value-input holds digits only (its input handler *)
(* strips everything else): a raw value is the number it spells and its    *)
(* length (leading zeros included); len = 0 is the empty field.            *)
(***************************************************************************)
KeyValues == 0..MaxKey

RawInputs ==
  {[val |-> 0, len |-> 0]} \cup
  {r \in [val : KeyValues, len : 1..(MaxDigits + 1)] : Len(NumStr(r.val)) <= r.len}

\* parseInt(sizeEl.value), parseInt(digitsEl.value): a positive number, or a
\* negative one that the handler rejects.
SizeInputs == (1..MaxSize) \cup {-1}
SimSizeInputs == (1..MaxTableSize) \cup {-1}
DigitsInputs == (1..MaxDigits) \cup {-1}

CellValues(c) ==
  CASE c.t = "null" -> {}
    [] c.t = "num" -> {c.v}
    [] c.t = "list" -> {c.vs[i] : i \in 1..Len(c.vs)} \ {NULL}

CellCount(c) ==
  CASE c.t = "null" -> 0
    [] c.t = "num" -> 1
    [] c.t = "list" -> Cardinality({i \in 1..Len(c.vs) : c.vs[i] # NULL})

RECURSIVE StoredCount(_)
StoredCount(t) ==
  IF Len(t) = 0 THEN 0 ELSE CellCount(Head(t)) + StoredCount(Tail(t))

StoredKeys(t) == UNION {CellValues(t[i]) : i \in 1..Len(t)}

(***************************************************************************)
(* Part II.  The /hash engine.  Its code is not under src/: the operators  *)
(* of this section follow sections 3, 4 and 6 of the specification and the *)
(* endpoint document src/hash_endpoints.md.  A key is held as the number   *)
(* its D-digit string spells.                                              *)
(***************************************************************************)
Empty == [t |-> "Empty"]
Tombstone == [t |-> "Tombstone"]
Occupied(k) == [t |-> "Occupied", key |-> k]
Bucket(ks) == [t |-> "Bucket", keys |-> ks]

ConfiguredResolvers == {"linear", "quadratic", "double", "chaining"}

Max(a, b) == IF a >= b THEN a ELSE b
Min(a, b) == IF a <= b THEN a ELSE b

KeyString(k, D) == PadStart(NumStr(k), D)

\* the hash configurations the client's set-hash request can carry
HashConfigs ==
  {[type |-> "mod"], [type |-> "square"], [type |-> "folding"]} \cup
  {[type |-> "truncation", n |-> n] : n \in 1..MaxDigits} \cup
  {[type |-> "truncation", positions |-> <<1>>]}

RECURSIVE FoldGroups(_, _)
FoldGroups(keyStr, groupSize) ==
  IF Len(keyStr) = 0 THEN 0
  ELSE IF Len(keyStr) <= groupSize
       THEN ParseInt(keyStr \o [i \in 1..(groupSize - Len(keyStr)) |-> 0])
       ELSE ParseInt(SubSeq(keyStr, 1, groupSize))
              + FoldGroups(SubSeq(keyStr, groupSize + 1, Len(keyStr)), groupSize)

\* HashFunctionStrategy: address(key) in [0, size)
Address(e, k) ==
  CASE e.hashFn.type = "mod" -> k % e.size
    [] e.hashFn.type = "square" ->
         LET sq == NumStr(k * k)
             mid == Max(0, (Len(sq) \div 2) - 1)
         IN ParseInt(SubSeq(sq, mid + 1, Min(mid + 2, Len(sq)))) % e.size
    [] e.hashFn.type = "truncation" ->
         IF "n" \in DOMAIN e.hashFn
         THEN ParseInt(SubSeq(KeyString(k, e.digits), 1,
                              Min(e.hashFn.n, e.digits))) % e.size
         ELSE ParseInt([i \in 1..Len(e.hashFn.positions) |->
                          KeyString(k, e.digits)[e.hashFn.positions[i]]])
                % e.size
    [] e.hashFn.type = "folding" ->
         FoldGroups(KeyString(k, e.digits), 2) % e.size

\* CollisionResolver: the address of probe attempt i >= 1
ProbeAddress(e, a0, k, i) ==
  CASE e.resolver = "linear" -> (a0 + i) % e.size
    [] e.resolver = "quadratic" -> (a0 + i * i) % e.size
    [] e.resolver = "double" ->
         (a0 + i * Max(1, 1 + (k % (e.size - 1)))) % e.size

InsertResult(kind, address, k, probed, slots) ==
  [kind |-> kind, address |-> address, key |-> k, probed |-> probed,
   slots |-> slots]

RECURSIVE InsertProbe(_, _, _, _, _)
InsertProbe(e, a0, k, i, probed) ==
  IF i >= e.size
  THEN InsertResult("TableFull", -1, k, probed, e.slots)
  ELSE LET a == ProbeAddress(e, a0, k, i)
           slot == e.slots[a + 1]
           seen == Append(probed, a)
       IN IF slot.t \in {"Empty", "Tombstone"}
          THEN InsertResult("ok", a, k, seen,
                            [e.slots EXCEPT ![a + 1] = Occupied(k)])
          ELSE IF slot = Occupied(k)
          THEN InsertResult("DuplicateKey", a, k, seen, e.slots)
          ELSE InsertProbe(e, a0, k, i + 1, seen)

\* insert(key), section 4.4
Insert(e, k) ==
  LET a0 == Address(e, k)
      slot == e.slots[a0 + 1]
  IN IF e.resolver = "chaining"
     THEN IF slot.t # "Bucket"
          THEN InsertResult("ok", a0, k, <<a0>>,
                            [e.slots EXCEPT ![a0 + 1] = Bucket(<<k>>)])
          ELSE IF Includes(slot.keys, k)
          THEN InsertResult("DuplicateKey", a0, k, <<a0>>, e.slots)
          ELSE InsertResult("ok", a0, k, <<a0>>,
                            [e.slots EXCEPT
                               ![a0 + 1] = Bucket(Append(slot.keys, k))])
     ELSE IF slot.t \in {"Empty", "Tombstone"}
     THEN InsertResult("ok", a0, k, <<a0>>,
                       [e.slots EXCEPT ![a0 + 1] = Occupied(k)])
     ELSE IF slot = Occupied(k)
     THEN InsertResult("DuplicateKey", a0, k, <<a0>>, e.slots)
     ELSE IF e.resolver = "none"
     THEN InsertResult("CollisionUnresolved", a0, k, <<a0>>, e.slots)
     ELSE InsertProbe(e, a0, k, 1, <<a0>>)

RECURSIVE SearchProbe(_, _, _, _)
SearchProbe(e, a0, k, i) ==
  IF i >= e.size THEN -1
  ELSE LET a == IF i = 0 THEN a0 ELSE ProbeAddress(e, a0, k, i)
           slot == e.slots[a + 1]
       IN IF slot = Occupied(k) THEN a
          ELSE IF slot.t = "Empty" THEN -1
          ELSE SearchProbe(e, a0, k, i + 1)

\* variant of Search: with no resolver the whole slot array is looked through
SearchAnySlot(e, k) ==
  LET a0 == Address(e, k)
      slot == e.slots[a0 + 1]
  IN CASE e.resolver = "chaining" ->
            IF slot.t = "Bucket" /\ Includes(slot.keys, k) THEN a0 ELSE -1
       [] e.resolver = "none" ->
            IF \E i \in 1..e.size : e.slots[i] = Occupied(k)
            THEN (CHOOSE i \in 1..e.size : e.slots[i] = Occupied(k)) - 1
            ELSE -1
       [] OTHER -> SearchProbe(e, a0, k, 0)

\* search(key), section 4.4: the address found, or -1
Search(e, k) ==
  LET a0 == Address(e, k)
      slot == e.slots[a0 + 1]
  IN CASE e.resolver = "chaining" ->
            IF slot.t = "Bucket" /\ Includes(slot.keys, k) THEN a0 ELSE -1
       [] e.resolver = "none" -> IF slot = Occupied(k) THEN a0 ELSE -1
       [] OTHER -> SearchProbe(e, a0, k, 0)

\* variant of Delete: an open-addressing slot is emptied, not marked
DeleteToEmpty(e, k) ==
  LET a == Search(e, k)
  IN IF a = -1
     THEN [kind |-> "NotFound", address |-> -1, slots |-> e.slots]
     ELSE [kind |-> "ok", address |-> a,
           slots |-> [e.slots EXCEPT ![a + 1] = Empty]]

\* delete(key), section 4.4
Delete(e, k) ==
  LET a == Search(e, k)
  IN IF a = -1
     THEN [kind |-> "NotFound", address |-> -1, slots |-> e.slots]
     ELSE IF e.resolver = "chaining"
     THEN LET rest == Splice(e.slots[a + 1].keys,
                             IndexOf(e.slots[a + 1].keys, k))
          IN [kind |-> "ok", address |-> a,
              slots |-> [e.slots EXCEPT
                           ![a + 1] = IF rest = <<>> THEN Empty
                                      ELSE Bucket(rest)]]
     ELSE [kind |-> "ok", address |-> a,
           slots |-> [e.slots EXCEPT ![a + 1] = Tombstone]]

SlotKeys(slot) ==
  CASE slot.t = "Occupied" -> <<slot.key>>
    [] slot.t = "Bucket" -> slot.keys
    [] OTHER -> <<>>

\* variant of LiveKeys: the keys are extracted from the last slot downwards
RECURSIVE LiveKeysDescending(_)
LiveKeysDescending(slots) ==
  IF Len(slots) = 0 THEN <<>>
  ELSE LiveKeysDescending(Tail(slots)) \o SlotKeys(Head(slots))

\* the live keys in ascending slot order
RECURSIVE LiveKeys(_)
LiveKeys(slots) ==
  IF Len(slots) = 0 THEN <<>>
  ELSE SlotKeys(Head(slots)) \o LiveKeys(Tail(slots))

\* reinsertion of the extracted keys through insert(); ok = every one succeeded
RECURSIVE Reinsert(_, _)
Reinsert(e, ks) ==
  IF Len(ks) = 0 THEN [ok |-> TRUE, engine |-> e]
  ELSE LET r == Insert(e, Head(ks))
       IN IF r.kind = "ok"
          THEN Reinsert([e EXCEPT !.slots = r.slots], Tail(ks))
          ELSE [ok |-> FALSE, engine |-> [e EXCEPT !.slots = r.slots]]

\* variant of SetCollision: the keys are reinserted into the live table, so
\* a failing reinsertion leaves the part already rebuilt
SetCollisionInPlace(e, resolver) ==
  LET ks == LiveKeys(e.slots)
      fresh == [e EXCEPT !.resolver = resolver,
                         !.slots = [i \in 1..e.size |-> Empty]]
  IN IF Len(ks) = 0
     THEN [ok |-> TRUE, engine |-> [e EXCEPT !.resolver = resolver]]
     ELSE Reinsert(fresh, ks)

\* set-collision(type): the rehash migration, built aside and swapped in
\* only when every key was reinserted
SetCollision(e, resolver) ==
  LET ks == LiveKeys(e.slots)
      fresh == [e EXCEPT !.resolver = resolver,
                         !.slots = [i \in 1..e.size |-> Empty]]
      built == Reinsert(fresh, ks)
  IN IF Len(ks) = 0
     THEN [ok |-> TRUE, engine |-> [e EXCEPT !.resolver = resolver]]
     ELSE IF built.ok THEN built
     ELSE [ok |-> FALSE, engine |-> e]

\* set-hash(type, params): replaces the active function, nothing else
\* InvalidConfig: a Truncation with n <= 0 or a position outside [1, D]
BadParams(e, h) ==
  h.type = "truncation" /\
    IF "n" \in DOMAIN h
    THEN h.n <= 0
    ELSE \E i \in 1..Len(h.positions) : h.positions[i] \notin 1..e.digits

SetHashUnvalidated(e, h) ==
  [ok |-> TRUE, engine |-> [e EXCEPT !.hashFn = h]]

SetHash(e, h) ==
  IF BadParams(e, h)
  THEN [ok |-> FALSE, engine |-> e]
  ELSE [ok |-> TRUE, engine |-> [e EXCEPT !.hashFn = h]]

\* variant of Create: the new table starts with the default function
CreateDefaultHash(e, newSize, newDigits) ==
  IF newSize <= 0 \/ newDigits <= 0
  THEN [ok |-> FALSE, engine |-> e]
  ELSE [ok |-> TRUE,
        engine |-> [e EXCEPT !.size = newSize, !.digits = newDigits,
                             !.hashFn = [type |-> "mod"],
                             !.slots = [i \in 1..newSize |-> Empty]]]

\* create(size, digits): a new, empty table; function and resolver stay
Create(e, newSize, newDigits) ==
  IF newSize <= 0 \/ newDigits <= 0
  THEN [ok |-> FALSE, engine |-> e]
  ELSE [ok |-> TRUE,
        engine |-> [e EXCEPT !.size = newSize, !.digits = newDigits,
                             !.slots = [i \in 1..newSize |-> Empty]]]

\* state(): {size, digits, data}
State(e) == [size |-> e.size, digits |-> e.digits, data |-> e.slots]

(***************************************************************************)
(* Part II.  The handlers of src/static/js/hash.js, each with the requests *)
(* it awaits.  The mirror currentState.data holds null, "DELETED", a key   *)
(* or an array: the same four shapes as the engine's slots.                *)
(***************************************************************************)
\* toDigits(rawValue, currentDigits).length
PaddedLength(raw) == Max(raw.len, currentDigits)

\* variant of MirrorInsert: a cell showing the deletion sentinel is left alone
MirrorInsertKeepSentinel(data, pos, k) ==
  LET index == pos - 1
  IN IF index >= 0 /\ index < Len(data)
     THEN IF data[index + 1].t = "Bucket"
          THEN IF Includes(data[index + 1].keys, k) THEN data
               ELSE [data EXCEPT
                       ![index + 1] = Bucket(Append(data[index + 1].keys, k))]
          ELSE IF data[index + 1] = Tombstone THEN data
          ELSE [data EXCEPT ![index + 1] = Occupied(k)]
     ELSE data

\* the local update of the insert handler for one reported position
MirrorInsert(data, pos, k) ==
  LET index == pos - 1
  IN IF index >= 0 /\ index < Len(data)
     THEN IF data[index + 1].t = "Bucket"
          THEN IF Includes(data[index + 1].keys, k) THEN data
               ELSE [data EXCEPT
                       ![index + 1] = Bucket(Append(data[index + 1].keys, k))]
          ELSE [data EXCEPT ![index + 1] = Occupied(k)]
     ELSE data

RECURSIVE Filter(_, _)
Filter(ks, k) ==
  IF Len(ks) = 0 THEN <<>>
  ELSE IF Head(ks) = k THEN Filter(Tail(ks), k)
  ELSE <<Head(ks)>> \o Filter(Tail(ks), k)

\* the local update of the delete handler for one reported position
MirrorDelete(data, pos, k) ==
  LET index == pos - 1
  IN IF index >= 0 /\ index < Len(data)
     THEN IF data[index + 1].t = "Bucket"
          THEN [data EXCEPT ![index + 1] = Bucket(Filter(data[index + 1].keys, k))]
          ELSE [data EXCEPT ![index + 1] = Tombstone]
     ELSE data

ClientResult(kind, e, data, menu, attempt, note) ==
  [kind |-> kind, engine |-> e, data |-> data, menu |-> menu,
   attempt |-> attempt, notify |-> note]

\* variant of InsertClick: every error answer takes the generic branch, the
\* collision menu is never opened
InsertClickNoMenu(e, data, menu, attempt, raw) ==
  IF raw.len = 0 \/ PaddedLength(raw) # currentDigits
  THEN ClientResult("rejected", e, data, menu, attempt, "error")
  ELSE LET r == Insert(e, raw.val)
       IN IF r.kind = "ok"
          THEN ClientResult("ok", [e EXCEPT !.slots = r.slots],
                            MirrorInsert(data, r.address + 1, raw.val),
                            "none", raw, "success")
          ELSE ClientResult(r.kind, e, data, "none", raw, "error")

\* insertBtn click handler, run on engine e with mirror `data`, menu state
\* `menu` and lastValueAttempt `attempt`; kind is what the request returned
\* ("rejected": the handler returned before sending it)
InsertClick(e, data, menu, attempt, raw) ==
  IF raw.len = 0 \/ PaddedLength(raw) # currentDigits
  THEN ClientResult("rejected", e, data, menu, attempt, "error")
  ELSE LET r == Insert(e, raw.val)
       IN IF r.kind = "ok"
          THEN ClientResult("ok", [e EXCEPT !.slots = r.slots],
                            MirrorInsert(data, r.address + 1, raw.val),
                            "none", raw, "success")
          ELSE IF r.kind = "CollisionUnresolved"
          THEN ClientResult(r.kind, e, data, "flex", raw, "error")
          ELSE ClientResult(r.kind, e, data, "none", raw, "error")

\* variant of ApplyCollisionClick: the retry is sent before the strategy
\* request has been served
ApplyCollisionClickRetryFirst(cType) ==
  LET first == InsertClick(engine, currentState.data, "none",
                           lastValueAttempt, lastValueAttempt)
      res == SetCollision(first.engine, cType)
  IN IF res.ok
     THEN [setOk |-> TRUE, retried |-> TRUE,
           retry |-> [first EXCEPT !.engine = res.engine]]
     ELSE [setOk |-> FALSE, retried |-> FALSE,
           retry |-> ClientResult("none", engine, currentState.data,
                                  collisionMenu, lastValueAttempt, "error")]

\* applyCollisionBtn click handler for the chosen #collision-type
ApplyCollisionClick(cType) ==
  LET res == SetCollision(engine, cType)
  IN IF res.ok
     THEN [setOk |-> TRUE, retried |-> TRUE,
           retry |-> InsertClick(res.engine, currentState.data, "none",
                                 lastValueAttempt, lastValueAttempt)]
     ELSE [setOk |-> FALSE, retried |-> FALSE,
           retry |-> ClientResult("none", engine, currentState.data,
                                  collisionMenu, lastValueAttempt, "error")]

NoAttempt == [val |-> 0, len |-> 0]

ClientInit ==
  /\ engine = [size |-> 0, digits |-> 0, slots |-> <<>>,
               hashFn |-> [type |-> "mod"], resolver |-> "none"]
  /\ currentState = [size |-> 0, digits |-> 0, data |-> <<>>]
  /\ currentDigits = 0
  /\ lastValueAttempt = NoAttempt
  /\ collisionMenu = "none"
  /\ notify = ""

\* the position lists the truncation field can hold: empty, a valid
\* position, a non-positive one, a mix, and one beyond every key width
PositionInputs == {<<>>, <<1>>, <<0>>, <<0, 1>>, <<MaxDigits + 1>>}

\* the hash-function form: the type select, and for a truncation the
\* method select and the parsed value field (n = 0 stands for every
\* value parseInt turns into NaN or a non-positive number)
HashForms ==
  {[hType |-> t] : t \in {"mod", "square", "folding"}} \cup
  {[hType |-> "truncation", method |-> "first", n |-> n] :
     n \in 0..MaxDigits} \cup
  {[hType |-> "truncation", method |-> "positions", positions |-> ps] :
     ps \in PositionInputs}

\* .filter(p => !isNaN(p) && p > 0)
PositivePositions(ps) == SelectSeq(ps, LAMBDA p : p > 0)

\* the early returns of the truncation branch
FormRejected(f) ==
  f.hType = "truncation" /\
    IF f.method = "first"
    THEN f.n <= 0
    ELSE Len(PositivePositions(f.positions)) = 0

\* setHashBody: the truncation_* keys carry the parameters
SetHashBody(f) ==
  CASE f.hType # "truncation" -> [type |-> f.hType]
    [] f.hType = "truncation" /\ f.method = "first" ->
         [type |-> "truncation", n |-> f.n]
    [] OTHER ->
         [type |-> "truncation",
          positions |-> PositivePositions(f.positions)]

HashCreateClickWith(f, sizeIn, digitsIn) ==
  /\ UNCHANGED <<simVars, serverVars, hashVars, animVars, binVars, seqVars, asyncVars>>
  /\ IF sizeIn <= 0 \/ digitsIn <= 0 \/ FormRejected(f)
     THEN /\ notify' = "error"
          /\ UNCHANGED <<engine, currentState, currentDigits,
                         lastValueAttempt, collisionMenu>>
     ELSE LET hashed == SetHash(engine, SetHashBody(f)).engine
              created == Create(hashed, sizeIn, digitsIn)
          IN /\ currentDigits' = digitsIn
             /\ engine' = created.engine
             /\ currentState' = State(created.engine)
             /\ collisionMenu' = "none"
             /\ notify' = "success"
             /\ UNCHANGED lastValueAttempt

HashCreateClick ==
  \E f \in HashForms, sizeIn \in SizeInputs, digitsIn \in DigitsInputs :
    HashCreateClickWith(f, sizeIn, digitsIn)

HashInsertClick ==
  /\ UNCHANGED <<simVars, serverVars, hashVars, animVars, binVars, seqVars, asyncVars>>
  /\ \E raw \in RawInputs :
       LET c == InsertClick(engine, currentState.data, collisionMenu,
                            lastValueAttempt, raw)
       IN /\ engine' = c.engine
          /\ currentState' = [currentState EXCEPT !.data = c.data]
          /\ collisionMenu' = c.menu
          /\ lastValueAttempt' = c.attempt
          /\ notify' = c.notify
          /\ UNCHANGED currentDigits

HashApplyCollisionClick ==
  /\ UNCHANGED <<simVars, serverVars, hashVars, animVars, binVars, seqVars, asyncVars>>
  /\ \E cType \in ConfiguredResolvers :
       LET c == ApplyCollisionClick(cType).retry
       IN /\ engine' = c.engine
          /\ currentState' = [currentState EXCEPT !.data = c.data]
          /\ collisionMenu' = c.menu
          /\ lastValueAttempt' = c.attempt
          /\ notify' = c.notify
          /\ UNCHANGED currentDigits

HashSearchClick ==
  /\ UNCHANGED <<simVars, serverVars, hashVars, animVars, binVars, seqVars, asyncVars>>
  /\ \E raw \in RawInputs :
       /\ notify' = IF raw.len = 0 \/ PaddedLength(raw) # currentDigits
                    THEN "error"
                    ELSE IF Search(engine, raw.val) # -1 THEN "success"
                    ELSE "error"
       /\ UNCHANGED <<engine, currentState, currentDigits, lastValueAttempt,
                      collisionMenu>>

HashDeleteClick ==
  /\ UNCHANGED <<simVars, serverVars, hashVars, animVars, binVars, seqVars, asyncVars>>
  /\ \E raw \in RawInputs :
       IF raw.len = 0 \/ PaddedLength(raw) # currentDigits
       THEN /\ notify' = "error"
            /\ UNCHANGED <<engine, currentState, currentDigits,
                           lastValueAttempt, collisionMenu>>
       ELSE LET r == Delete(engine, raw.val)
            IN /\ engine' = [engine EXCEPT !.slots = r.slots]
               /\ currentState' =
                    IF r.kind = "ok"
                    THEN [currentState EXCEPT
                            !.data = MirrorDelete(@, r.address + 1, raw.val)]
                    ELSE currentState
               /\ notify' = IF r.kind = "ok" THEN "success" ELSE "error"
               /\ UNCHANGED <<currentDigits, lastValueAttempt, collisionMenu>>

ClientNext ==
  \/ HashCreateClick
  \/ HashInsertClick
  \/ HashApplyCollisionClick
  \/ HashSearchClick
  \/ HashDeleteClick

(***************************************************************************)
(* Part III.  The engine behind its transport layer (section 5 of the      *)
(* specification): callers send requests in any order.  A mutating request *)
(* is accepted only while no other one is running; the one request that    *)
(* takes several steps is the rehash migration of set-collision, which     *)
(* rebuilds the table aside, one reinsertion per step, and publishes it in *)
(* a single step.  state() and search read the published table `engine`    *)
(* at any moment.                                                          *)
(***************************************************************************)
Idle == [phase |-> "idle"]

Building(before, aside, pending) ==
  [phase |-> "building", before |-> before, aside |-> aside,
   pending |-> pending]

clientOnlyVars == <<currentState, currentDigits, lastValueAttempt,
                    collisionMenu, notify>>

ServerInit == migration = Idle

SrvSetHash ==
  /\ migration = Idle
  /\ \E h \in HashConfigs : engine' = SetHash(engine, h).engine
  /\ UNCHANGED <<simVars, asyncVars, hashVars, animVars, binVars, seqVars, clientOnlyVars, migration>>

SrvCreate ==
  /\ migration = Idle
  /\ \E sizeIn \in 1..MaxSize, digitsIn \in 1..MaxDigits :
       engine' = Create(engine, sizeIn, digitsIn).engine
  /\ UNCHANGED <<simVars, asyncVars, hashVars, animVars, binVars, seqVars, clientOnlyVars, migration>>

SrvInsert ==
  /\ migration = Idle
  /\ engine.size > 0
  /\ \E k \in KeyValues :
       /\ Len(NumStr(k)) <= engine.digits
       /\ engine' = [engine EXCEPT !.slots = Insert(engine, k).slots]
  /\ UNCHANGED <<simVars, asyncVars, hashVars, animVars, binVars, seqVars, clientOnlyVars, migration>>

SrvDelete ==
  /\ migration = Idle
  /\ engine.size > 0
  /\ \E k \in KeyValues :
       /\ Len(NumStr(k)) <= engine.digits
       /\ engine' = [engine EXCEPT !.slots = Delete(engine, k).slots]
  /\ UNCHANGED <<simVars, asyncVars, hashVars, animVars, binVars, seqVars, clientOnlyVars, migration>>

\* set-collision is accepted: with no live key the resolver is swapped at
\* once, otherwise the migration starts on a fresh table kept aside
SrvSetCollisionBegin ==
  /\ migration = Idle
  /\ \E resolver \in ConfiguredResolvers :
       IF Len(LiveKeys(engine.slots)) = 0
       THEN /\ engine' = SetCollision(engine, resolver).engine
            /\ UNCHANGED migration
       ELSE /\ migration' =
                 Building(engine,
                          [engine EXCEPT
                             !.resolver = resolver,
                             !.slots = [i \in 1..engine.size |-> Empty]],
                          LiveKeys(engine.slots))
            /\ UNCHANGED engine
  /\ UNCHANGED <<simVars, asyncVars, hashVars, animVars, binVars, seqVars, clientOnlyVars>>

\* variant of SrvMigrateStep: each reinsertion is published as it is made
SrvMigrateStepInPlace ==
  /\ migration.phase = "building"
  /\ migration.pending # <<>>
  /\ LET r == Insert(migration.aside, Head(migration.pending))
     IN /\ migration' =
             IF r.kind = "ok"
             THEN Building(migration.before,
                           [migration.aside EXCEPT !.slots = r.slots],
                           Tail(migration.pending))
             ELSE Idle
        /\ engine' = [migration.aside EXCEPT !.slots = r.slots]
  /\ UNCHANGED <<simVars, asyncVars, hashVars, animVars, binVars, seqVars, clientOnlyVars>>

\* one reinsertion into the table kept aside; a failing one abandons the
\* migration
SrvMigrateStep ==
  /\ migration.phase = "building"
  /\ migration.pending # <<>>
  /\ LET r == Insert(migration.aside, Head(migration.pending))
     IN migration' =
          IF r.kind = "ok"
          THEN Building(migration.before,
                        [migration.aside EXCEPT !.slots = r.slots],
                        Tail(migration.pending))
          ELSE Idle
  /\ UNCHANGED <<simVars, asyncVars, hashVars, animVars, binVars, seqVars, clientOnlyVars, engine>>

\* every key was reinserted: the rebuilt table is published
SrvSetCollisionCommit ==
  /\ migration.phase = "building"
  /\ migration.pending = <<>>
  /\ engine' = migration.aside
  /\ migration' = Idle
  /\ UNCHANGED <<simVars, asyncVars, hashVars, animVars, binVars, seqVars, clientOnlyVars>>

ServerNext ==
  \/ SrvSetHash
  \/ SrvCreate
  \/ SrvInsert
  \/ SrvDelete
  \/ SrvSetCollisionBegin
  \/ SrvMigrateStep
  \/ SrvSetCollisionCommit

(***************************************************************************)
(* Part IV.  The insertBtn and applyCollisionBtn handlers of hash.js as the *)
(* browser runs them: a handler runs from the click to its first await     *)
(* (the request is sent), other handlers may run, and it resumes when the  *)
(* answer arrives.  The engine serves the requests in flight in any order  *)
(* and the answers arrive in any order.                                    *)
(***************************************************************************)
MaxInflight == 2    \* requests in flight at the same time

\* the create form used while requests are watched in flight
AsyncForms == {[hType |-> "mod"]}

InsertRequest(raw) ==
  [op |-> "insert", raw |-> raw, served |-> FALSE, kind |-> "", address |-> -1]

CollisionRequest(cType) ==
  [op |-> "set-collision", cType |-> cType, served |-> FALSE, ok |-> FALSE]

Without(seq, i) == SubSeq(seq, 1, i - 1) \o SubSeq(seq, i + 1, Len(seq))

AsyncInit ==
  /\ inflight = <<>>
  /\ menuOpenedBy = NoAttempt

\* createBtn click handler, taken while nothing is in flight
AsyncCreateClick ==
  /\ inflight = <<>>
  /\ \E f \in AsyncForms, sizeIn \in SizeInputs, digitsIn \in DigitsInputs :
       HashCreateClickWith(f, sizeIn, digitsIn)

\* insertBtn click handler up to its await fetch(insert): lastValueAttempt
\* is written before the request leaves
AsyncInsertClick ==
  /\ Len(inflight) < MaxInflight
  /\ \E raw \in RawInputs :
       IF raw.len = 0 \/ PaddedLength(raw) # currentDigits
       THEN /\ notify' = "error"
            /\ UNCHANGED <<lastValueAttempt, inflight>>
       ELSE /\ lastValueAttempt' = raw
            /\ inflight' = Append(inflight, InsertRequest(raw))
            /\ UNCHANGED notify
  /\ UNCHANGED <<simVars, serverVars, hashVars, animVars, binVars, seqVars, engine, currentState, currentDigits,
                 collisionMenu, menuOpenedBy>>

\* the engine serves one of the requests in flight
AsyncServe ==
  /\ \E i \in 1..Len(inflight) :
       /\ ~inflight[i].served
       /\ IF inflight[i].op = "insert"
          THEN LET r == Insert(engine, inflight[i].raw.val)
               IN /\ engine' = [engine EXCEPT !.slots = r.slots]
                  /\ inflight' = [inflight EXCEPT
                                    ![i].served = TRUE,
                                    ![i].kind = r.kind,
                                    ![i].address = r.address]
          ELSE LET res == SetCollision(engine, inflight[i].cType)
               IN /\ engine' = res.engine
                  /\ inflight' = [inflight EXCEPT
                                    ![i].served = TRUE, ![i].ok = res.ok]
  /\ UNCHANGED <<simVars, serverVars, hashVars, animVars, binVars, seqVars, clientOnlyVars, menuOpenedBy>>

\* insertBtn click handler from the answer of its request on
AsyncInsertAnswer ==
  /\ \E i \in 1..Len(inflight) :
       /\ inflight[i].op = "insert"
       /\ inflight[i].served
       /\ inflight' = Without(inflight, i)
       /\ IF inflight[i].kind = "ok"
          THEN /\ currentState' =
                    [currentState EXCEPT
                       !.data = MirrorInsert(@, inflight[i].address + 1,
                                             inflight[i].raw.val)]
               /\ collisionMenu' = "none"
               /\ notify' = "success"
               /\ UNCHANGED menuOpenedBy
          ELSE IF inflight[i].kind = "CollisionUnresolved"
          THEN /\ collisionMenu' = "flex"
               /\ menuOpenedBy' = inflight[i].raw
               /\ notify' = "error"
               /\ UNCHANGED currentState
          ELSE /\ collisionMenu' = "none"
               /\ notify' = "error"
               /\ UNCHANGED <<currentState, menuOpenedBy>>
  /\ UNCHANGED <<simVars, serverVars, hashVars, animVars, binVars, seqVars, engine, currentDigits,
                 lastValueAttempt>>

\* applyCollisionBtn click handler up to its await fetch; the button is part
\* of the collision menu
AsyncApplyClick ==
  /\ collisionMenu = "flex"
  /\ Len(inflight) < MaxInflight
  /\ \E cType \in ConfiguredResolvers :
       inflight' = Append(inflight, CollisionRequest(cType))
  /\ UNCHANGED <<simVars, serverVars, hashVars, animVars, binVars, seqVars, clientVars, menuOpenedBy>>

\* applyCollisionBtn click handler, answer ok: the menu is hidden, the value
\* field is set to lastValueAttempt and insertBtn.click() runs the insert
\* handler up to its await
AsyncApplyAnswerOk ==
  /\ \E i \in 1..Len(inflight) :
       /\ inflight[i].op = "set-collision"
       /\ inflight[i].served
       /\ inflight[i].ok
       /\ IF lastValueAttempt.len = 0
             \/ PaddedLength(lastValueAttempt) # currentDigits
          THEN /\ inflight' = Without(inflight, i)
               /\ notify' = "error"
          ELSE /\ inflight' = Append(Without(inflight, i),
                                     InsertRequest(lastValueAttempt))
               /\ notify' = "success"
  /\ collisionMenu' = "none"
  /\ UNCHANGED <<simVars, serverVars, hashVars, animVars, binVars, seqVars, engine, currentState, currentDigits,
                 lastValueAttempt, menuOpenedBy>>

\* applyCollisionBtn click handler, answer not ok
AsyncApplyAnswerFailed ==
  /\ \E i \in 1..Len(inflight) :
       /\ inflight[i].op = "set-collision"
       /\ inflight[i].served
       /\ ~inflight[i].ok
       /\ inflight' = Without(inflight, i)
  /\ notify' = "error"
  /\ UNCHANGED <<simVars, serverVars, hashVars, animVars, binVars, seqVars, engine, currentState, currentDigits,
                 lastValueAttempt, collisionMenu, menuOpenedBy>>

AsyncNext ==
  \/ AsyncCreateClick
  \/ AsyncInsertClick
  \/ AsyncServe
  \/ AsyncInsertAnswer
  \/ AsyncApplyClick
  \/ AsyncApplyAnswerOk
  \/ AsyncApplyAnswerFailed

(***************************************************************************)
(* Part V.  applyHashFunction of arbol.js as a function of the table size, *)
(* the digit width, the selected function and the value: every setting the *)
(* form can produce on an empty table, and every value of that width.      *)
(***************************************************************************)
MaxHashDigits == 4  \* digit widths of the tables whose addresses are computed
MaxHashKey == 123   \* values whose address is computed: 0..MaxHashKey

NoneApplied == [value |-> NULL, index |-> NULL]

AppliedInit == applied = NoneApplied

AnimInit == animations = <<>>

NoneFound == [target |-> NULL, index |-> NULL, modified |-> FALSE]

MaxBinSearches == 1  \* binarySearchAnimation calls suspended at the same time

\* a call of binarySearchAnimation that is not running
NoSearch ==
  [target |-> NULL, low |-> 0, high |-> 0, mid |-> NULL, midValue |-> NULL,
   pc |-> "idle", cells |-> 0, i |-> 0, modified |-> FALSE]

\* binaria.js before its first createStructure
BinInit ==
  /\ binSize = 0
  /\ binDigits = 0
  /\ binData = <<>>
  /\ binMessage = ""
  /\ binSearches = [i \in 1..MaxBinSearches |-> NoSearch]
  /\ binFoundIndex = NoneFound

\* let state = { size: 0, digits: 0, data: [] }, nothing typed, button enabled
SeqInit ==
  /\ seqSize = 0
  /\ valueInput = NULL
  /\ insertDisabled = FALSE
  /\ seqInserts = <<>>
  /\ seqNotify = ""

\* an empty table of any size and digit width, with any function selected
HashInit ==
  /\ size \in 1..MaxTableSize
  /\ digits \in 1..MaxHashDigits
  /\ table = [i \in 1..size |-> NullCell]
  /\ hashFunction \in HashFunctions
  /\ rangeOption = "user"
  /\ collisionResolution = "lineal"
  /\ message = "success"
  /\ ClientInit /\ ServerInit /\ AsyncInit /\ AppliedInit /\ AnimInit
  /\ BinInit /\ SeqInit

\* let index = applyHashFunction(value), for a value of the table's width
applyHashFunctionCall ==
  /\ \E value \in 0..MaxHashKey :
       /\ Len(NumStr(value)) <= digits
       /\ applied' = [value |-> value, index |-> applyHashFunction(value)]
  /\ UNCHANGED <<simVars, clientVars, serverVars, asyncVars, animVars, binVars, seqVars>>

(***************************************************************************)
(* Part I.  Handlers of initHashing in arbol.js.  Each is one action: the   *)
(* handler from the click or change event to its last statement.           *)
(***************************************************************************)
SimInit ==
  /\ size = 0
  /\ digits = 0
  /\ table = <<>>
  /\ hashFunction = "mod"
  /\ rangeOption = "user"
  /\ collisionResolution = "lineal"
  /\ message = ""

Init ==
  /\ SimInit /\ ClientInit /\ ServerInit /\ AsyncInit /\ AppliedInit
  /\ AnimInit /\ BinInit /\ SeqInit

\* variant of createHashTableWith: a table of unchanged size keeps its cells
createHashTableKeeping(sizeIn, digitsIn) ==
  IF sizeIn <= 0 \/ digitsIn <= 0
  THEN /\ message' = "error"
       /\ UNCHANGED <<size, digits, table, hashFunction, rangeOption,
                      collisionResolution>>
  ELSE LET newSize == IF rangeOption = "prime"
                      THEN findLargerPrime(sizeIn) ELSE sizeIn
       IN /\ size' = newSize
          /\ digits' = digitsIn
          /\ table' = IF newSize = size THEN table
                      ELSE [i \in 1..newSize |-> NullCell]
          /\ message' = "success"
          /\ UNCHANGED <<hashFunction, rangeOption, collisionResolution>>

\* createHashTable with sizeIn in #size and digitsIn in #digits
createHashTableWith(sizeIn, digitsIn) ==
  IF sizeIn <= 0 \/ digitsIn <= 0
  THEN /\ message' = "error"
       /\ UNCHANGED <<size, digits, table, hashFunction, rangeOption,
                      collisionResolution>>
  ELSE LET newSize == IF rangeOption = "prime"
                      THEN findLargerPrime(sizeIn) ELSE sizeIn
       IN /\ size' = newSize
          /\ digits' = digitsIn
          /\ table' = [i \in 1..newSize |-> NullCell]
          /\ message' = "success"
          /\ UNCHANGED <<hashFunction, rangeOption, collisionResolution>>

createHashTable ==
  /\ UNCHANGED <<clientVars, serverVars, asyncVars, hashVars, animVars, binVars, seqVars>>
  /\ \E sizeIn \in SimSizeInputs, digitsIn \in DigitsInputs :
       createHashTableWith(sizeIn, digitsIn)

\* variant of hashFunctionChange: the table is emptied, as it is when the
\* collision resolution changes
hashFunctionChangeResetting ==
  /\ UNCHANGED <<clientVars, serverVars, asyncVars, hashVars, animVars, binVars, seqVars>>
  /\ \E h \in HashFunctions :
    /\ hashFunction' = h
    /\ table' = IF size > 0 THEN [i \in 1..size |-> NullCell] ELSE table
    /\ UNCHANGED <<size, digits, rangeOption, collisionResolution, message>>

hashFunctionChange ==
  /\ UNCHANGED <<clientVars, serverVars, asyncVars, hashVars, animVars, binVars, seqVars>>
  /\ \E h \in HashFunctions :
    /\ hashFunction' = h
    /\ UNCHANGED <<size, digits, table, rangeOption, collisionResolution,
                   message>>

rangeOptionChange ==
  /\ UNCHANGED <<clientVars, serverVars, asyncVars, hashVars, animVars, binVars, seqVars>>
  /\ \E r \in RangeOptions :
    /\ rangeOption' = r
    /\ UNCHANGED <<size, digits, table, hashFunction, collisionResolution,
                   message>>

collisionResolutionChange ==
  /\ UNCHANGED <<clientVars, serverVars, asyncVars, hashVars, animVars, binVars, seqVars>>
  /\ \E c \in CollisionResolutions :
    /\ collisionResolution' = c
    /\ table' = IF size > 0 THEN [i \in 1..size |-> NullCell] ELSE table
    /\ UNCHANGED <<size, digits, hashFunction, rangeOption, message>>

\* the early returns of the click handlers: showMessage(..., "error")
Rejected ==
  /\ message' = "error"
  /\ UNCHANGED <<size, digits, table, hashFunction, rangeOption,
                 collisionResolution>>

\* insertBtn click handler with raw in #value
insertBtnClickWith(raw) ==
  IF size = 0 \/ raw.len = 0 \/ raw.len # digits
  THEN Rejected
  ELSE LET r == insertValueAnimation(raw.val)
       IN /\ StoredCount(r.table) <= MaxStored
          /\ table' = r.table
          /\ message' = IF r.ok THEN "success" ELSE "error"
          /\ UNCHANGED <<size, digits, hashFunction, rangeOption,
                         collisionResolution>>

insertBtnClick ==
  /\ UNCHANGED <<clientVars, serverVars, asyncVars, hashVars, animVars, binVars, seqVars>>
  /\ \E raw \in RawInputs : insertBtnClickWith(raw)

\* searchBtn click handler with raw in #value
searchBtnClickWith(raw) ==
  IF size = 0 \/ raw.len = 0
  THEN Rejected
  ELSE LET foundIndex == searchValueAnimation(raw.val)
       IN /\ message' = IF foundIndex # -1 THEN "success" ELSE "error"
          /\ UNCHANGED <<size, digits, table, hashFunction, rangeOption,
                         collisionResolution>>

searchBtnClick ==
  /\ UNCHANGED <<clientVars, serverVars, asyncVars, hashVars, animVars, binVars, seqVars>>
  /\ \E raw \in RawInputs : searchBtnClickWith(raw)

\* deleteBtn click handler with raw in #value
deleteBtnClickWith(raw) ==
  IF size = 0 \/ raw.len = 0
  THEN Rejected
  ELSE LET r == deleteValueAnimation(raw.val)
       IN /\ table' = r.table
          /\ message' = IF r.ok THEN "success" ELSE "error"
          /\ UNCHANGED <<size, digits, hashFunction, rangeOption,
                         collisionResolution>>

deleteBtnClick ==
  /\ UNCHANGED <<clientVars, serverVars, asyncVars, hashVars, animVars, binVars, seqVars>>
  /\ \E raw \in RawInputs : deleteBtnClickWith(raw)

Next ==
  \/ createHashTable
  \/ hashFunctionChange
  \/ rangeOptionChange
  \/ collisionResolutionChange
  \/ insertBtnClick
  \/ searchBtnClick
  \/ deleteBtnClick

(***************************************************************************)
(* Part VI.  The animations of arbol.js between their sleeps.  The click   *)
(* handlers are async: insertValueAnimation, searchValueAnimation and      *)
(* deleteValueAnimation give the event loop back at every `await sleep`,   *)
(* and no handler waits for a running animation or disables a control.     *)
(* Each action below is one run of the event loop: a click handler up to   *)
(* its first sleep, or an animation from one sleep to the next (or to the  *)
(* end of its click handler).  createHashTable and the change handlers of  *)
(* Part I run between them as they are.                                    *)
(***************************************************************************)
MaxAnimations == 1  \* animations suspended at the same time

\* an animation suspended in its first sleep; `cells` is the length of the
\* NodeList taken when it started
Animation(op, value) ==
  [op |-> op, value |-> value, pc |-> "start", index |-> NULL,
   cells |-> size, result |-> NULL, render |-> FALSE]

\* state.table[index]; beyond the array it is undefined, which every test of
\* the code treats as null
ReadCell(t, index) == IF index + 1 <= Len(t) THEN t[index + 1] ELSE NullCell

\* state.table[index] = c; an assignment beyond the array extends it
WriteCell(t, index, c) ==
  [j \in 1..Max(Len(t), index + 1) |->
     IF j = index + 1 THEN c ELSE IF j <= Len(t) THEN t[j] ELSE NullCell]

\* the truth value JavaScript gives a cell: null and the number 0 are falsy
Truthy(c) == c.t = "list" \/ (c.t = "num" /\ c.v # 0)

\* renderTable throws a TypeError under "encadenamiento" and "anidados" when
\* a cell holds a number other than 0: it has no length and no forEach
RenderThrows(t) ==
  /\ collisionResolution \in {"encadenamiento", "anidados"}
  /\ \E i \in 0..(size - 1) : ReadCell(t, i).t = "num" /\ ReadCell(t, i).v # 0

\* what one run does to animation tk and to state.table: the animation is
\* suspended again, its click handler ends with a message, or an exception
\* ends both without a message
Suspend(t, tk) == [kind |-> "suspend", table |-> t, task |-> tk, ok |-> FALSE]
Return(t, tk, ok) == [kind |-> "return", table |-> t, task |-> tk, ok |-> ok]
Throw(t, tk) == [kind |-> "throw", table |-> t, task |-> tk, ok |-> FALSE]

\* the part of deleteValueAnimation after searchValueAnimation returned index
DeleteFound(t, tk, index) ==
  LET cell == ReadCell(t, index)
      value == tk.value
  IN CASE collisionResolution = "encadenamiento" ->
            IF cell.t # "list" THEN Throw(t, tk)
            ELSE IF ~Includes(cell.vs, value) THEN Return(t, tk, FALSE)
            ELSE LET t2 == WriteCell(t, index,
                             List(Splice(cell.vs, IndexOf(cell.vs, value))))
                 IN IF RenderThrows(t2) THEN Throw(t2, tk)
                    ELSE Return(t2, tk, TRUE)
       [] collisionResolution = "anidados" ->
            IF IsNull(cell) THEN Throw(t, tk)
            ELSE IF cell.t = "num" \/ ~Includes(cell.vs, value)
            THEN Return(t, tk, FALSE)
            ELSE LET t2 == WriteCell(t, index,
                             List([cell.vs EXCEPT
                                     ![IndexOf(cell.vs, value)] = NULL]))
                 IN IF RenderThrows(t2) THEN Throw(t2, tk)
                    ELSE Return(t2, tk, TRUE)
       [] OTHER -> Return(WriteCell(t, index, NullCell), tk, TRUE)

\* the animation function returns `result` (-1: false / not found) and its
\* caller runs on: the pending renderTable of a nested insert, the rest of
\* deleteValueAnimation, the message of the click handler
Conclude(t, tk, result, render) ==
  CASE tk.op = "insert" ->
         IF render /\ RenderThrows(t) THEN Throw(t, tk)
         ELSE Return(t, tk, result # -1)
    [] tk.op = "search" -> Return(t, tk, result # -1)
    [] tk.op = "delete" ->
         IF result = -1 THEN Return(t, tk, FALSE)
         ELSE DeleteFound(t, tk, result)

\* `if (index < cells.length) { ...; await sleep(...) }` before a return
SleepThen(t, tk, sleeps, result, render) ==
  IF sleeps
  THEN Suspend(t, [tk EXCEPT !.pc = "returning", !.result = result,
                             !.render = render])
  ELSE Conclude(t, tk, result, render)

\* insertValueAnimation after the collision sleep: resolveCollision and the
\* assignment state.table[newIndex] = value
InsertCollided(tk) ==
  LET newIndex == resolveCollisionIn(table, tk.index, tk.value, "insert")
      t2 == WriteCell(table, newIndex, Num(tk.value))
  IN IF newIndex = -1 THEN Conclude(table, tk, -1, FALSE)
     ELSE IF RenderThrows(t2) THEN Throw(t2, tk)
     ELSE SleepThen(t2, tk, newIndex < size, newIndex, FALSE)

\* insertValueAnimation after the second sleep: the branch on
\* state.collisionResolution as it is now
InsertHashed(tk) ==
  LET index == tk.index
      value == tk.value
      cell == ReadCell(table, index)
      t1 == IF ~IsNull(cell) THEN table
            ELSE IF collisionResolution = "encadenamiento"
            THEN WriteCell(table, index, List(<<>>))
            ELSE WriteCell(table, index, List([j \in 1..NestedSlots |-> NULL]))
      c1 == ReadCell(t1, index)
  IN CASE collisionResolution = "encadenamiento" ->
            IF c1.t = "num" THEN Throw(table, tk)
            ELSE IF Includes(c1.vs, value)
            THEN SleepThen(t1, tk, index < tk.cells, -1, FALSE)
            ELSE LET t2 == WriteCell(t1, index, List(Append(c1.vs, value)))
                 IN IF RenderThrows(t2) THEN Throw(t2, tk)
                    ELSE SleepThen(t2, tk, index < size, index, FALSE)
       [] collisionResolution = "anidados" ->
            IF c1.t = "num" \/ FirstHole(c1.vs) = 0
            THEN SleepThen(t1, tk, index < tk.cells, -1, FALSE)
            ELSE SleepThen(WriteCell(t1, index,
                             List([c1.vs EXCEPT ![FirstHole(c1.vs)] = value])),
                           tk, index < tk.cells, index, TRUE)
       [] OTHER ->
            IF IsNull(cell)
            THEN SleepThen(WriteCell(table, index, Num(value)), tk,
                           index < size, index, FALSE)
            ELSE IF index < tk.cells
            THEN Suspend(table, [tk EXCEPT !.pc = "collided"])
            ELSE InsertCollided(tk)

\* searchValueAnimation after the collision sleep
SearchCollided(tk) ==
  LET newIndex == resolveCollisionIn(table, tk.index, tk.value, "search")
  IN IF newIndex = -1 THEN Conclude(table, tk, -1, FALSE)
     ELSE SleepThen(table, tk, newIndex < tk.cells, newIndex, FALSE)

\* searchValueAnimation after the second sleep
SearchHashed(tk) ==
  LET index == tk.index
      value == tk.value
      cell == ReadCell(table, index)
      sleeps == index < tk.cells
  IN CASE collisionResolution = "encadenamiento" ->
            IF ~Truthy(cell) THEN SleepThen(table, tk, sleeps, -1, FALSE)
            ELSE IF cell.t = "num" THEN Throw(table, tk)
            ELSE IF Includes(cell.vs, value)
            THEN SleepThen(table, tk, sleeps, index, FALSE)
            ELSE SleepThen(table, tk, sleeps, -1, FALSE)
       [] collisionResolution = "anidados" ->
            IF cell.t = "list" /\ Includes(cell.vs, value)
            THEN SleepThen(table, tk, sleeps, index, FALSE)
            ELSE SleepThen(table, tk, sleeps, -1, FALSE)
       [] OTHER ->
            IF HoldsValue(cell, value)
            THEN SleepThen(table, tk, sleeps, index, FALSE)
            ELSE IF IsNull(cell) THEN SleepThen(table, tk, sleeps, -1, FALSE)
            ELSE IF sleeps THEN Suspend(table, [tk EXCEPT !.pc = "collided"])
            ELSE SearchCollided(tk)

\* animation i is replaced by its next suspension, or leaves with the
\* message of its click handler
Resumed(i, out) ==
  /\ StoredCount(out.table) <= MaxStored
  /\ table' = out.table
  /\ animations' = IF out.kind = "suspend"
                   THEN [animations EXCEPT ![i] = out.task]
                   ELSE Without(animations, i)
  /\ message' = CASE out.kind = "return" ->
                       IF out.ok THEN "success" ELSE "error"
                  [] OTHER -> message
  /\ UNCHANGED <<size, digits, hashFunction, rangeOption, collisionResolution>>
  /\ UNCHANGED <<clientVars, serverVars, asyncVars, hashVars, binVars, seqVars>>

\* a click handler up to the first sleep of its animation
animationClick(op, raw) ==
  /\ UNCHANGED <<clientVars, serverVars, asyncVars, hashVars, binVars, seqVars>>
  /\ IF size = 0 \/ raw.len = 0 \/ (op = "insert" /\ raw.len # digits)
     THEN Rejected /\ UNCHANGED animations
     ELSE /\ Len(animations) < MaxAnimations
          /\ animations' = Append(animations, Animation(op, raw.val))
          /\ UNCHANGED simVars

insertAnimationClick == \E raw \in RawInputs : animationClick("insert", raw)

searchAnimationClick == \E raw \in RawInputs : animationClick("search", raw)

deleteAnimationClick == \E raw \in RawInputs : animationClick("delete", raw)

\* first sleep over: let index = applyHashFunction(value), second sleep
animationHash ==
  \E i \in 1..Len(animations) :
    /\ animations[i].pc = "start"
    /\ Resumed(i, Suspend(table,
                 [animations[i] EXCEPT
                    !.pc = "hashed",
                    !.index = applyHashFunction(animations[i].value)]))

\* second sleep over: the cell at index is read and, by an insert, written
animationBranch ==
  \E i \in 1..Len(animations) :
    /\ animations[i].pc = "hashed"
    /\ Resumed(i, IF animations[i].op = "insert"
                  THEN InsertHashed(animations[i])
                  ELSE SearchHashed(animations[i]))

\* collision sleep over: resolveCollision on the table as it is now
animationProbe ==
  \E i \in 1..Len(animations) :
    /\ animations[i].pc = "collided"
    /\ Resumed(i, IF animations[i].op = "insert"
                  THEN InsertCollided(animations[i])
                  ELSE SearchCollided(animations[i]))

\* last sleep over: the animation returns to its caller
animationReturn ==
  \E i \in 1..Len(animations) :
    /\ animations[i].pc = "returning"
    /\ Resumed(i, Conclude(table, animations[i], animations[i].result,
                           animations[i].render))

AnimNext ==
  \/ createHashTable
  \/ collisionResolutionChange
  \/ insertAnimationClick
  \/ searchAnimationClick
  \/ deleteAnimationClick
  \/ animationHash
  \/ animationBranch
  \/ animationProbe
  \/ animationReturn

(***************************************************************************)
(* Part VII.  The binary-search simulator, binaria.js.  createStructure,   *)
(* the insert and the delete click handlers run to completion; the search  *)
(* click handler is async: binarySearchAnimation gives the event loop back *)
(* at every `await sleep`, and the other handlers run in between.          *)
(***************************************************************************)
MaxBinSize == 3      \* sizes typed into #size of the binary-search page

Undefined == -3      \* state.data[mid] read beyond the end of the array

BinSizeInputs == (1..MaxBinSize) \cup {-1}

\* the text of #value-input: RawInputs, and a text parseInt cannot read
BinRawInputs == RawInputs \cup {[val |-> NaN, len |-> 1]}

OutsideBinaria ==
  UNCHANGED <<simVars, clientVars, serverVars, asyncVars, hashVars, animVars,
              seqVars>>

\* state.data.sort((a, b) => a - b)
RECURSIVE SortedInsert(_, _)
SortedInsert(s, x) ==
  IF Len(s) = 0 THEN <<x>>
  ELSE IF x < Head(s) THEN <<x>> \o s
  ELSE <<Head(s)>> \o SortedInsert(Tail(s), x)

RECURSIVE Sort(_)
Sort(s) == IF Len(s) = 0 THEN <<>> ELSE SortedInsert(Sort(Tail(s)), Head(s))

\* variant of insertValue: the value is pushed and the array is not sorted
insertValueUnsorted(raw) ==
  IF \/ Len(binData) >= binSize
     \/ raw.val = NaN
     \/ raw.len # binDigits
     \/ Includes(binData, raw.val)
  THEN [ok |-> FALSE, data |-> binData]
  ELSE [ok |-> TRUE, data |-> Append(binData, raw.val)]

\* insertValue(value): [ok, data] = the returned flag and state.data afterwards
insertValue(raw) ==
  IF \/ Len(binData) >= binSize
     \/ raw.val = NaN
     \/ raw.len # binDigits
     \/ Includes(binData, raw.val)
  THEN [ok |-> FALSE, data |-> binData]
  ELSE [ok |-> TRUE, data |-> Sort(Append(binData, raw.val))]

\* deleteValue(value)
deleteValue(raw) ==
  IF raw.val = NaN \/ ~Includes(binData, raw.val)
  THEN [ok |-> FALSE, data |-> binData]
  ELSE [ok |-> TRUE, data |-> Splice(binData, IndexOf(binData, raw.val))]

\* history: the searches suspended while state.data is assigned or changed
Disturbed(searches) ==
  [i \in 1..MaxBinSearches |->
     IF searches[i].pc = "idle" THEN searches[i]
     ELSE [searches[i] EXCEPT !.modified = TRUE]]

\* createStructure with sizeIn in #size and digitsIn in #digits
createStructureWith(sizeIn, digitsIn) ==
  /\ OutsideBinaria
  /\ binFoundIndex' = NoneFound
  /\ IF sizeIn <= 0 \/ digitsIn <= 0
     THEN /\ binMessage' = "error"
          /\ UNCHANGED <<binSize, binDigits, binData, binSearches>>
     ELSE /\ binSize' = sizeIn
          /\ binDigits' = digitsIn
          /\ binData' = <<>>
          /\ binMessage' = "success"
          /\ binSearches' = Disturbed(binSearches)

createStructure ==
  \E sizeIn \in BinSizeInputs, digitsIn \in DigitsInputs :
    createStructureWith(sizeIn, digitsIn)

\* insertBtn click handler of binaria.js with raw in #value-input
binInsertBtnClickWith(raw) ==
  /\ OutsideBinaria
  /\ binFoundIndex' = NoneFound
  /\ UNCHANGED <<binSize, binDigits>>
  /\ IF binSize = 0 \/ raw.len = 0
     THEN binMessage' = "error" /\ UNCHANGED <<binData, binSearches>>
     ELSE LET r == insertValue(raw)
          IN /\ binData' = r.data
             /\ binMessage' = IF r.ok THEN "success" ELSE "error"
             /\ binSearches' = IF r.ok THEN Disturbed(binSearches)
                               ELSE binSearches

binInsertBtnClick == \E raw \in BinRawInputs : binInsertBtnClickWith(raw)

\* deleteBtn click handler of binaria.js
binDeleteBtnClickWith(raw) ==
  /\ OutsideBinaria
  /\ binFoundIndex' = NoneFound
  /\ UNCHANGED <<binSize, binDigits>>
  /\ IF binSize = 0 \/ raw.len = 0
     THEN binMessage' = "error" /\ UNCHANGED <<binData, binSearches>>
     ELSE LET r == deleteValue(raw)
          IN /\ binData' = r.data
             /\ binMessage' = IF r.ok THEN "success" ELSE "error"
             /\ binSearches' = IF r.ok THEN Disturbed(binSearches)
                               ELSE binSearches

binDeleteBtnClick == \E raw \in BinRawInputs : binDeleteBtnClickWith(raw)

\* binarySearchAnimation(target) suspended in its first sleep: low and high
\* are taken from state.data as it is at the click
BinarySearch(target) ==
  [target |-> target, low |-> 0, high |-> Len(binData) - 1, mid |-> NULL,
   midValue |-> NULL, pc |-> "start", cells |-> binSize, i |-> 0,
   modified |-> FALSE]

\* searchBtn click handler of binaria.js, to the first sleep of the animation
binSearchBtnClickWith(raw) ==
  /\ OutsideBinaria
  /\ binFoundIndex' = NoneFound
  /\ UNCHANGED <<binSize, binDigits, binData>>
  /\ IF binSize = 0 \/ Len(binData) = 0 \/ raw.len = 0 \/ raw.val = NaN
     THEN binMessage' = "error" /\ UNCHANGED binSearches
     ELSE /\ \E i \in 1..MaxBinSearches : binSearches[i].pc = "idle"
          /\ LET free == CHOOSE i \in 1..MaxBinSearches :
                           /\ binSearches[i].pc = "idle"
                           /\ \A j \in 1..(i - 1) : binSearches[j].pc # "idle"
             IN binSearches' =
                  [binSearches EXCEPT ![free] = BinarySearch(raw.val)]
          /\ UNCHANGED binMessage

binSearchBtnClick == \E raw \in BinRawInputs : binSearchBtnClickWith(raw)

\* search i sleeps again
BinSuspended(i, s) ==
  /\ binSearches' = [binSearches EXCEPT ![i] = s]
  /\ binFoundIndex' = NoneFound
  /\ UNCHANGED binMessage

\* search i returns index to the searchBtn handler, which shows its message
BinReturned(i, index) ==
  /\ binSearches' = [binSearches EXCEPT ![i] = NoSearch]
  /\ binFoundIndex' = [target |-> binSearches[i].target, index |-> index,
                       modified |-> binSearches[i].modified]
  /\ binMessage' = IF index # -1 THEN "success" ELSE "error"

\* a sleep before the test `while (low <= high)` is over: the next mid and
\* state.data[mid] are taken and shown, or the not-found animation begins
binarySearchLoopOf(i) ==
  /\ OutsideBinaria
  /\ UNCHANGED <<binSize, binDigits, binData>>
  /\ LET s == binSearches[i]
         mid == (s.low + s.high) \div 2
     IN /\ s.pc \in {"start", "next"}
        /\ IF s.low <= s.high
           THEN BinSuspended(i, [s EXCEPT
                  !.pc = "compare",
                  !.mid = mid,
                  !.midValue = IF mid < Len(binData) THEN binData[mid + 1]
                               ELSE Undefined])
           ELSE IF 0 < s.cells
           THEN BinSuspended(i, [s EXCEPT !.pc = "fading", !.i = 0])
           ELSE BinSuspended(i, [s EXCEPT !.pc = "pause"])

binarySearchLoop == \E i \in 1..MaxBinSearches : binarySearchLoopOf(i)

\* variant of binarySearchCompare: the upper half starts one cell too far
binarySearchCompareSkipping(i) ==
  /\ OutsideBinaria
  /\ UNCHANGED <<binSize, binDigits, binData>>
  /\ LET s == binSearches[i]
     IN /\ s.pc = "compare"
        /\ IF s.midValue = s.target THEN BinReturned(i, s.mid)
           ELSE IF s.midValue # Undefined /\ s.midValue < s.target
           THEN BinSuspended(i, [s EXCEPT !.pc = "next", !.low = s.mid + 2])
           ELSE BinSuspended(i, [s EXCEPT !.pc = "next", !.high = s.mid - 1])

\* the sleep after the comparison was shown is over: midValue, read before
\* the sleep, is compared with target
binarySearchCompareOf(i) ==
  /\ OutsideBinaria
  /\ UNCHANGED <<binSize, binDigits, binData>>
  /\ LET s == binSearches[i]
     IN /\ s.pc = "compare"
        /\ IF s.midValue = s.target THEN BinReturned(i, s.mid)
           ELSE IF s.midValue # Undefined /\ s.midValue < s.target
           THEN BinSuspended(i, [s EXCEPT !.pc = "next", !.low = s.mid + 1])
           ELSE BinSuspended(i, [s EXCEPT !.pc = "next", !.high = s.mid - 1])

binarySearchCompare == \E i \in 1..MaxBinSearches : binarySearchCompareOf(i)

\* the not-found animation: one sleep per cell, a last sleep, return -1
binarySearchNotFoundOf(i) ==
  /\ OutsideBinaria
  /\ UNCHANGED <<binSize, binDigits, binData>>
  /\ LET s == binSearches[i]
     IN /\ s.pc \in {"fading", "pause"}
        /\ IF s.pc = "pause" THEN BinReturned(i, -1)
           ELSE IF s.i + 1 < s.cells
           THEN BinSuspended(i, [s EXCEPT !.i = s.i + 1])
           ELSE BinSuspended(i, [s EXCEPT !.pc = "pause"])

binarySearchNotFound == \E i \in 1..MaxBinSearches : binarySearchNotFoundOf(i)

BinNext ==
  \/ createStructure
  \/ binInsertBtnClick
  \/ binDeleteBtnClick
  \/ binSearchBtnClick
  \/ binarySearchLoop
  \/ binarySearchCompare
  \/ binarySearchNotFound

(***************************************************************************)
(* Part VIII.  secuencial.js, the client of the /linear-search backend.    *)
(* The insert click handler is split at its awaits: the /insert request,   *)
(* the body of an error answer, the /state request and body of reload(),   *)
(* and the sleeps of scanAnimation.  The backend is not part of the model: *)
(* its answers are inputs.                                                 *)
(***************************************************************************)
MaxSeqSize == 2     \* sizes of the structure the backend reports: 0..MaxSeqSize
MaxSeqInserts == 2  \* at most this many insert handlers are suspended at once

OutsideSecuencial ==
  UNCHANGED <<simVars, clientVars, serverVars, asyncVars, hashVars, animVars,
              binVars>>

\* how a fetch can settle: res.ok, !res.ok, or a rejection (network, timeout)
Answers == {"ok", "error", "throw"}

\* the user types into #value-input, or clears it
seqValueInput ==
  /\ OutsideSecuencial
  /\ \E v \in {NULL} \cup KeyValues : valueInput' = v
  /\ UNCHANGED <<seqSize, insertDisabled, seqInserts, seqNotify>>

\* createBtn click: POST /create, then reload(); fetchState() gives the empty
\* state when its request fails
seqCreateBtnClick ==
  /\ OutsideSecuencial
  /\ \E newSize \in 1..MaxSeqSize, answer \in Answers, reloaded \in BOOLEAN :
       IF answer = "ok"
       THEN /\ seqSize' = IF reloaded THEN newSize ELSE 0
            /\ seqNotify' = "created"
       ELSE /\ seqNotify' = "create-error"
            /\ UNCHANGED seqSize
  /\ UNCHANGED <<valueInput, insertDisabled, seqInserts>>

\* the handler that reached `await fetchWithTimeout(.../insert)` with value
InsertHandler(value) == [pc |-> "insert", value |-> value, n |-> 0, i |-> 0]

\* variant of seqInsertBtnClick without `if (insertBtn.disabled) return`
seqInsertBtnClickUnguarded ==
  /\ OutsideSecuencial
  /\ UNCHANGED seqSize
  /\ IF seqSize = 0 \/ valueInput = NULL
     THEN /\ seqNotify' = IF seqSize = 0 THEN "no-structure" ELSE "no-key"
          /\ insertDisabled' = FALSE
          /\ UNCHANGED <<valueInput, seqInserts>>
     ELSE /\ Len(seqInserts) < MaxSeqInserts
          /\ insertDisabled' = TRUE
          /\ seqInserts' = Append(seqInserts, InsertHandler(valueInput))
          /\ UNCHANGED <<valueInput, seqNotify>>

\* insertBtn click, up to the first await or to the end of `finally`
seqInsertBtnClick ==
  /\ OutsideSecuencial
  /\ UNCHANGED seqSize
  /\ IF insertDisabled
     THEN UNCHANGED <<valueInput, insertDisabled, seqInserts, seqNotify>>
     ELSE IF seqSize = 0 \/ valueInput = NULL
     THEN /\ seqNotify' = IF seqSize = 0 THEN "no-structure" ELSE "no-key"
          /\ insertDisabled' = FALSE
          /\ UNCHANGED <<valueInput, seqInserts>>
     ELSE /\ Len(seqInserts) < MaxSeqInserts
          /\ insertDisabled' = TRUE
          /\ seqInserts' = Append(seqInserts, InsertHandler(valueInput))
          /\ UNCHANGED <<valueInput, seqNotify>>

\* handler i stays suspended, now as h
SeqSuspended(i, h) ==
  /\ seqInserts' = [seqInserts EXCEPT ![i] = h]
  /\ UNCHANGED <<valueInput, insertDisabled, seqNotify>>

\* catch (error) { notifyError } finally { insertBtn.disabled = false }
SeqFailed(i) ==
  /\ seqInserts' = Without(seqInserts, i)
  /\ seqNotify' = "insert-error"
  /\ insertDisabled' = FALSE
  /\ UNCHANGED valueInput

\* notifySuccess; valueEl.value = ""; finally { insertBtn.disabled = false }
SeqSucceeded(i) ==
  /\ seqInserts' = Without(seqInserts, i)
  /\ seqNotify' = "inserted"
  /\ valueInput' = NULL
  /\ insertDisabled' = FALSE

\* scanAnimation at cell k of h.n: the cell holds the target, or the loop
\* sleeps and goes on to the next cell; past the last cell the loop is over
Scanning(i, h, k) ==
  \E found \in BOOLEAN :
    IF k < h.n /\ ~found
    THEN SeqSuspended(i, [h EXCEPT !.pc = "scan", !.i = k + 1])
    ELSE SeqSuspended(i, [h EXCEPT !.pc = "fade", !.i = k])

\* reload() ends with state.size = newSize; scanAnimation starts on that state
Reloaded(i, newSize) ==
  /\ seqSize' = newSize
  /\ Scanning(i, [seqInserts[i] EXCEPT !.n = newSize], 0)

\* the /insert request settles
seqInsertAnswered ==
  /\ OutsideSecuencial
  /\ \E i \in 1..Len(seqInserts), answer \in Answers :
       /\ seqInserts[i].pc = "insert"
       /\ CASE answer = "ok" ->
                 /\ SeqSuspended(i, [seqInserts[i] EXCEPT !.pc = "state"])
                 /\ UNCHANGED seqSize
            [] answer = "error" ->
                 /\ SeqSuspended(i, [seqInserts[i] EXCEPT !.pc = "detail"])
                 /\ UNCHANGED seqSize
            [] OTHER -> SeqFailed(i) /\ UNCHANGED seqSize

\* `await res.json()` of an error answer settles: its detail, or its own
\* rejection, is thrown
seqErrorDetail ==
  /\ OutsideSecuencial
  /\ \E i \in 1..Len(seqInserts) :
       /\ seqInserts[i].pc = "detail"
       /\ SeqFailed(i)
       /\ UNCHANGED seqSize

\* the /state request of fetchState() settles
seqStateAnswered ==
  /\ OutsideSecuencial
  /\ \E i \in 1..Len(seqInserts), answer \in Answers :
       /\ seqInserts[i].pc = "state"
       /\ IF answer = "ok"
          THEN /\ SeqSuspended(i, [seqInserts[i] EXCEPT !.pc = "body"])
               /\ UNCHANGED seqSize
          ELSE Reloaded(i, 0)

\* `await res.json()` of fetchState() settles: the backend's state, or the
\* empty state when it rejects
seqStateBody ==
  /\ OutsideSecuencial
  /\ \E i \in 1..Len(seqInserts), newSize \in 0..MaxSeqSize :
       /\ seqInserts[i].pc = "body"
       /\ Reloaded(i, newSize)

\* `await sleep(stepMs)` inside the loop of scanAnimation is over
seqScanStep ==
  /\ OutsideSecuencial
  /\ \E i \in 1..Len(seqInserts) :
       /\ seqInserts[i].pc = "scan"
       /\ Scanning(i, seqInserts[i], seqInserts[i].i)
       /\ UNCHANGED seqSize

\* `await sleep(1500)` at the end of scanAnimation is over
seqScanEnd ==
  /\ OutsideSecuencial
  /\ \E i \in 1..Len(seqInserts) :
       /\ seqInserts[i].pc = "fade"
       /\ SeqSucceeded(i)
       /\ UNCHANGED seqSize

SeqNext ==
  \/ seqValueInput
  \/ seqCreateBtnClick
  \/ seqInsertBtnClick
  \/ seqInsertAnswered
  \/ seqErrorDetail
  \/ seqStateAnswered
  \/ seqStateBody
  \/ seqScanStep
  \/ seqScanEnd

(***************************************************************************)
(* Claims about the local simulator (checked under Spec).                  *)
(***************************************************************************)
\* a key the insert handler accepts: its text has exactly `digits` characters
ValidKey(k) == Len(NumStr(k)) <= digits

NoDuplicates(t) == StoredCount(t) = Cardinality(StoredKeys(t))

FoundKeys == {k \in KeyValues : searchValueAnimation(k) # -1}

\* C1: whenever insert(k) succeeds and reports address a, a search(k) issued
\* immediately afterwards returns that address a.
C1_SearchFindsReportedAddress ==
  size > 0 =>
    \A k \in KeyValues :
      ValidKey(k) =>
        LET r == insertValueAnimation(k)
        IN r.ok => searchIn(r.table, k) = r.index

\* C2: swapping the resolver from Linear to Chaining on a table holding a
\* duplicate-free key set leaves exactly that key set reachable by search.
C2_LinearToChainingKeepsKeys ==
  [][(/\ size > 0
      /\ collisionResolution = "lineal"
      /\ collisionResolution' = "encadenamiento"
      /\ NoDuplicates(table))
     => FoundKeys' = StoredKeys(table)]_vars

\* C3: under an open-addressing resolver and an unchanged hash function, a
\* key that search finds at address a is still found at a after any step
\* that leaves it stored there; in particular deleting another key does not
\* make it unreachable.
C3_LiveKeysStayReachable ==
  [][(/\ size > 0
      /\ collisionResolution \in OpenAddressing
      /\ UNCHANGED <<size, digits, hashFunction, collisionResolution>>)
     => \A k \in KeyValues :
          LET a == searchValueAnimation(k)
          IN (a # -1 /\ HoldsValue(table'[a + 1], k))
               => searchValueAnimation(k)' = a]_vars

\* C4: no key value is stored twice in the table, and an insert of a key
\* that is already stored is rejected.
C4_NoDuplicateKeys ==
  size > 0 =>
    /\ NoDuplicates(table)
    /\ \A k \in StoredKeys(table) : ~insertValueAnimation(k).ok

\* C9: an operation that reports a failure leaves size, digits, the table,
\* the hash function and the collision resolution as they were.
C9_FailureLeavesStateUnchanged ==
  /\ [](size > 0 =>
         \A k \in KeyValues :
           /\ ~insertValueAnimation(k).ok => insertValueAnimation(k).table = table
           /\ ~deleteValueAnimation(k).ok => deleteValueAnimation(k).table = table)
  /\ [][(message # "error" /\ message' = "error")
        => UNCHANGED <<size, digits, table, hashFunction, collisionResolution>>]_vars

\* C9 witness: an insert was refused because the nested array of its slot
\* is full, and the error message is showing.
C9_Witness ==
  /\ message = "error"
  /\ size > 0
  /\ collisionResolution = "anidados"
  /\ \E k \in KeyValues : ValidKey(k) /\ ~insertValueAnimation(k).ok

\* C10: delete(k) under open addressing leaves a tombstone (neither null
\* nor a key) in the slot where k was found and changes no other slot.
C10_DeleteLeavesTombstone ==
  (size > 0 /\ collisionResolution \in OpenAddressing) =>
    \A k \in KeyValues :
      LET r == deleteValueAnimation(k)
      IN r.ok =>
           /\ ~IsNull(r.table[r.index + 1])
           /\ r.table[r.index + 1].t # "num"
           /\ \A i \in 1..size : i # r.index + 1 => r.table[i] = table[i]

\* C11: in every state and for every key, an insert that succeeds followed by
\* a delete of the same key that succeeds leaves a table in which a search of
\* that key finds nothing.
C11_InsertDeleteSearchNotFound ==
  size > 0 =>
    \A k \in KeyValues :
      ValidKey(k) =>
        LET r == insertValueAnimation(k)
            d == deleteIn(r.table, k)
        IN (r.ok /\ d.ok) => searchIn(d.table, k) = -1

\* the address of attempt i of an insert of value: the home index for i = 0
AttemptAddress(i, value) ==
  IF i = 0 THEN applyHashFunction(value)
  ELSE (applyHashFunction(value) + ProbeOffset(i, value)) % size

\* C12: under open addressing an insert fails for want of room only when all
\* size attempts (the home index and the size - 1 probes) met an occupied slot.
C12_TableFullAfterSizeAttempts ==
  (size > 0 /\ collisionResolution \in OpenAddressing) =>
    \A k \in KeyValues :
      (ValidKey(k) /\ ~insertValueAnimation(k).ok) =>
        \A i \in 0..(size - 1) : ~IsNull(table[AttemptAddress(i, k) + 1])

\* an insert has just failed on a table of several slots, and would fail again
C12_Witness ==
  /\ size > 1
  /\ collisionResolution \in OpenAddressing
  /\ message = "error"
  /\ \E k \in KeyValues : ValidKey(k) /\ ~insertValueAnimation(k).ok

\* what every create must leave: the digit width asked for, a table of
\* size cells that are all empty, and no key found by a search
FreshTable(digitsIn) ==
  /\ digits' = digitsIn
  /\ Len(table') = size'
  /\ \A i \in 1..size' : IsNull(table'[i])
  /\ \A k \in KeyValues : searchValueAnimation(k)' = -1

\* C15 as stated: whatever the state before, a create with positive size and
\* digits leaves a table of exactly that size and digit width, all of its
\* cells empty, in which no key is found.
C15_CreateResetsToRequestedSize ==
  [][\A sizeIn \in 1..MaxTableSize, digitsIn \in 1..MaxDigits :
       (createHashTableWith(sizeIn, digitsIn) /\ UNCHANGED <<clientVars, serverVars, asyncVars, hashVars, animVars, binVars, seqVars>>)
         => (size' = sizeIn /\ FreshTable(digitsIn))]_vars

\* C15: whatever the state before, a create with positive size and digits
\* leaves a table of that digit width, all of its cells empty, in which no
\* key is found; its size is the size asked for, or, with the range option
\* "prime", the smallest prime not below it.
C15_CreateResets ==
  [][\A sizeIn \in 1..MaxTableSize, digitsIn \in 1..MaxDigits :
       (createHashTableWith(sizeIn, digitsIn) /\ UNCHANGED <<clientVars, serverVars, asyncVars, hashVars, animVars, binVars, seqVars>>)
         => /\ FreshTable(digitsIn)
            /\ rangeOption # "prime" => size' = sizeIn
            /\ rangeOption = "prime" =>
                 /\ size' >= sizeIn
                 /\ isPrime(size')
                 /\ \A n \in sizeIn..(size' - 1) : ~isPrime(n)]_vars

\* a table was created with the range option "prime" over a size that is
\* prime, and nothing has been stored since
C15_Witness ==
  /\ size > 0
  /\ isPrime(size)
  /\ rangeOption = "prime"
  /\ message = "success"
  /\ \A i \in 1..size : IsNull(table[i])

\* C16: a step that replaces the hash function changes nothing else: size,
\* digits, the table with the keys it holds and the collision resolution
\* stay as they were, so no key is moved.
C16_SetHashChangesOnlyHash ==
  [][hashFunction' # hashFunction =>
       UNCHANGED <<size, digits, table, rangeOption, collisionResolution>>]_vars

\* a table holding keys under a hash function other than the initial one
C16_Witness ==
  /\ size > 0
  /\ hashFunction # "mod"
  /\ StoredCount(table) > 0

InHomeBucket(t, k) ==
  /\ ~IsNull(t[applyHashFunction(k) + 1])
  /\ t[applyHashFunction(k) + 1].t = "list"
  /\ Includes(t[applyHashFunction(k) + 1].vs, k)

\* C18: under chaining every key kept in the list at index s hashes to s and
\* is found by search at s; and the step that turns a linear-probing table
\* into a chained one leaves every key it held, displaced or not, in the
\* list at its home index.
C18_ChainedKeysAtHome ==
  /\ []((size > 0 /\ collisionResolution = "encadenamiento") =>
          \A s \in 0..(size - 1) :
            \A k \in CellValues(table[s + 1]) :
              applyHashFunction(k) = s /\ searchValueAnimation(k) = s)
  /\ [][(size > 0 /\ collisionResolution = "lineal"
           /\ collisionResolution' = "encadenamiento")
         => \A k \in StoredKeys(table) : InHomeBucket(table, k)']_vars

\* C19: an insert, search or delete whose raw value does not have exactly
\* `digits` digits is refused with an error and leaves the table as it was;
\* the value is neither padded nor cut to make it fit.
C19_WrongLengthRejected ==
  \A raw \in RawInputs :
    (size > 0 /\ raw.len # digits) =>
      ~ENABLED (/\ UNCHANGED <<clientVars, serverVars, asyncVars, hashVars, animVars, binVars, seqVars>>
                /\ \/ insertBtnClickWith(raw)
                   \/ searchBtnClickWith(raw)
                   \/ deleteBtnClickWith(raw)
                /\ ~(message' = "error" /\ table' = table))

\* the probes 1..size-1 of an insert of value k: the cell examined by probe i
ProbeCell(i, k) == table[AttemptAddress(i, k) + 1]

\* probe i is the first to meet a free cell / a cell that holds k
FirstFreeProbe(i, k) ==
  /\ IsNull(ProbeCell(i, k))
  /\ \A j \in 1..(i - 1) : ~IsNull(ProbeCell(j, k))

MeetsKeyFirst(i, k) ==
  /\ HoldsValue(ProbeCell(i, k), k)
  /\ \A j \in 1..(i - 1) : ~IsNull(ProbeCell(j, k))

\* C21: under linear or quadratic probing, an insert of a key whose home cell
\* holds a different key is refused with the table unchanged when a cell
\* holding the key is met before any free cell, and otherwise stores the key
\* at the first free address of the probe sequence and reports that address.
C21_ProbeFirstFreeOrDuplicate ==
  (size > 0 /\ collisionResolution \in {"lineal", "cuadratica"}) =>
    \A k \in KeyValues :
      (ValidKey(k) /\ table[applyHashFunction(k) + 1].t = "num"
                   /\ table[applyHashFunction(k) + 1].v # k) =>
        LET r == insertValueAnimation(k)
            duplicate == \E i \in 1..(size - 1) : MeetsKeyFirst(i, k)
        IN /\ duplicate => (~r.ok /\ r.table = table)
           /\ \A i \in 1..(size - 1) :
                (~duplicate /\ FirstFreeProbe(i, k)) =>
                  /\ r.ok
                  /\ r.index = AttemptAddress(i, k)
                  /\ r.table = [table EXCEPT ![r.index + 1] = Num(k)]

\* the DoubleHash step of the specification, section 4.2
DoubleHashStep(k) == Max(1, 1 + (k % (size - 1)))

\* the home cell of k holds another key, so that an insert of k probes
HomeTaken(k) ==
  /\ table[applyHashFunction(k) + 1].t = "num"
  /\ table[applyHashFunction(k) + 1].v # k

\* what the claim says of a table of two or more cells: the step is a number,
\* at least 1, equal to the specified one; probe i examines
\* (a0 + i * step) mod size; the first probe leaves the home address; and an
\* insert that probes stores the key at the first free address of the sequence
DoubleStepsFrom(k) ==
  /\ secondHash(k) # NaN
  /\ secondHash(k) >= 1
  /\ secondHash(k) = DoubleHashStep(k)
  /\ \A i \in 1..(size - 1) :
       AttemptAddress(i, k)
         = (applyHashFunction(k) + i * DoubleHashStep(k)) % size
  /\ AttemptAddress(1, k) # applyHashFunction(k)
  /\ HomeTaken(k) =>
       \A i \in 1..(size - 1) :
         FirstFreeProbe(i, k) =>
           /\ insertValueAnimation(k).ok
           /\ insertValueAnimation(k).index = AttemptAddress(i, k)

\* C22 as stated: for every table size from 1 on and every key, the step of
\* double hashing is a well-defined integer that is at least 1.
C22_DoubleStepDefinedForEverySize ==
  (size >= 1 /\ collisionResolution = "doble") =>
    \A k \in KeyValues :
      ValidKey(k) => (secondHash(k) # NaN /\ secondHash(k) >= 1)

\* C22: for every table of two or more cells and every key, the step of
\* double hashing is the integer max(1, 1 + (key mod (size-1))), probe i
\* examines (a0 + i*step) mod size, and the first probe never re-examines a0;
\* on a table of one cell the step is not a number (the remainder of a
\* division by zero) and an insert whose home cell is taken fails without
\* probing, the table unchanged.
C22_DoubleStep ==
  (size >= 1 /\ collisionResolution = "doble") =>
    \A k \in KeyValues :
      ValidKey(k) =>
        IF size >= 2
        THEN DoubleStepsFrom(k)
        ELSE /\ secondHash(k) = NaN
             /\ HomeTaken(k) =>
                  (~insertValueAnimation(k).ok
                     /\ insertValueAnimation(k).table = table)

\* under double hashing a key sits one probe of step 2 away from its home
\* cell, which holds another key
C22_Witness ==
  /\ collisionResolution = "doble"
  /\ size >= 3
  /\ \E k \in KeyValues :
       /\ ValidKey(k)
       /\ HomeTaken(k)
       /\ secondHash(k) = 2
       /\ table[AttemptAddress(1, k) + 1] = Num(k)

\* the search of k returns the first address of the probe order a0, a1, ...
\* that holds k, gives up at the first empty cell, and looks at no more than
\* size addresses
SearchFollowsProbeOrder(k) ==
  LET found == searchValueAnimation(k)
  IN IF found # -1
     THEN \E i \in 0..(size - 1) :
            /\ found = AttemptAddress(i, k)
            /\ HoldsValue(table[found + 1], k)
            /\ \A j \in 0..(i - 1) :
                 /\ ~IsNull(table[AttemptAddress(j, k) + 1])
                 /\ ~HoldsValue(table[AttemptAddress(j, k) + 1], k)
     ELSE \A i \in 0..(size - 1) :
            HoldsValue(table[AttemptAddress(i, k) + 1], k) =>
              \E j \in 0..(i - 1) : IsNull(table[AttemptAddress(j, k) + 1])

\* the search of k continues past a slot that a delete has just vacated: every
\* other key found before the delete is found at the same address after it
SearchPassesDeleted(k) ==
  \A other \in KeyValues \ {k} :
    LET d == deleteIn(table, other)
    IN (ValidKey(other) /\ d.ok /\ searchValueAnimation(k) # -1) =>
         searchIn(d.table, k) = searchValueAnimation(k)

\* C23: with an open-addressing resolver, a search examines a0, a1, ... in
\* probe order, returns the first address holding the key, ends without a
\* result at the first Empty slot, examines at most size addresses, and
\* continues past the slots of deleted keys.
C23_SearchProbesPastTombstones ==
  (size > 0 /\ collisionResolution \in OpenAddressing) =>
    \A k \in KeyValues :
      ValidKey(k) => (SearchFollowsProbeOrder(k) /\ SearchPassesDeleted(k))

Distinct(vs) == \A i, j \in 1..Len(vs) : vs[i] = vs[j] => i = j

\* C26: under chaining an insert of k with home cell a0 makes the list [k]
\* when the cell is empty, appends k at the end of the list when k is not in
\* it, and fails with the list unchanged when k is in it; every success
\* reports a0, and every list holds distinct keys.
C26_ChainedInsertAppends ==
  (size > 0 /\ collisionResolution = "encadenamiento") =>
    /\ \A i \in 1..size : table[i].t = "list" => Distinct(table[i].vs)
    /\ \A k \in KeyValues :
         ValidKey(k) =>
           LET a0 == applyHashFunction(k)
               cell == table[a0 + 1]
               r == insertValueAnimation(k)
           IN /\ cell.t \in {"null", "list"}
              /\ IsNull(cell) =>
                   /\ r.ok /\ r.index = a0
                   /\ r.table = [table EXCEPT ![a0 + 1] = List(<<k>>)]
              /\ (cell.t = "list" /\ ~Includes(cell.vs, k)) =>
                   /\ r.ok /\ r.index = a0
                   /\ r.table =
                        [table EXCEPT ![a0 + 1] = List(cell.vs \o <<k>>)]
              /\ (cell.t = "list" /\ Includes(cell.vs, k)) =>
                   (~r.ok /\ r.table = table)

\* under chaining a list holds two keys, appended one after the other, and
\* the last request was refused
C26_Witness ==
  /\ collisionResolution = "encadenamiento"
  /\ message = "error"
  /\ \E i \in 1..size : table[i].t = "list" /\ Len(table[i].vs) >= 2

\* C27: under chaining a delete of a stored key removes exactly that key from
\* the list of its home cell, keeps the order of the keys that remain, leaves
\* every other cell alone, and turns the cell into an empty one (null, not an
\* empty list) when the last key of the list goes.
C27_ChainedDeleteEmptiesSlot ==
  (size > 0 /\ collisionResolution = "encadenamiento") =>
    \A k \in KeyValues :
      LET a0 == applyHashFunction(k)
          cell == table[a0 + 1]
          d == deleteValueAnimation(k)
      IN (ValidKey(k) /\ cell.t = "list" /\ Includes(cell.vs, k)) =>
           /\ d.ok
           /\ d.index = a0
           /\ \A i \in 1..size : i # a0 + 1 => d.table[i] = table[i]
           /\ IF Filter(cell.vs, k) = <<>>
              THEN IsNull(d.table[a0 + 1])
              ELSE d.table[a0 + 1] = List(Filter(cell.vs, k))

\* the address the specification gives a key under Truncation by count: the
\* first n digits of the D-digit key string, leading zeros included, mod size
TruncationByCount(k, n) ==
  ParseInt(SubSeq(PadStart(NumStr(k), digits), 1, Min(n, digits))) % size

\* C30: the truncation address of a key is computed on its D-digit string with
\* the leading zeros: the first n digits (n = 2 in the simulator), read as a
\* number and reduced mod size; key 0123 gives 01 = 1, not 12.
C30_TruncationKeepsLeadingZeros ==
  (hashFunction = "truncamiento" /\ applied # NoneApplied) =>
    applied.index = TruncationByCount(applied.value, 2)

\* C31: the folding address of a key is the sum of the consecutive two-digit
\* groups of its D-digit string, a short last group padded with a zero on the
\* right (a trailing 5 counts as 50), reduced mod size.
C31_FoldingPadsShortGroup ==
  (hashFunction = "plegamiento" /\ applied # NoneApplied) =>
    applied.index = FoldGroups(PadStart(NumStr(applied.value), digits), 2) % size

\* the address the specification gives a key under MidSquare: at most two
\* digits of the square's decimal representation from index
\* max(0, floor(len / 2) - 1), mod size
MidSquare(k) ==
  LET sq == NumStr(k * k)
      mid == Max(0, (Len(sq) \div 2) - 1)
  IN ParseInt(SubSeq(sq, mid + 1, Min(mid + 2, Len(sq)))) % size

\* C32: under "cuadrado" the address of every key is the number formed by at
\* most two digits of the square of the key, starting at index
\* max(0, floor(len / 2) - 1) of its decimal representation, mod size; squares
\* of one to three digits (mid = 0) included.
C32_MidSquareAddress ==
  (hashFunction = "cuadrado" /\ applied # NoneApplied) =>
    /\ applied.index = MidSquare(applied.value)
    /\ applied.index \in 0..(size - 1)

\* C32 witness: a key whose square has a single digit (floor(len / 2) - 1 is
\* negative there) has been hashed to the square itself mod size
C32_Witness ==
  /\ hashFunction = "cuadrado"
  /\ size = 3
  /\ applied = [value |-> 2, index |-> 1]

\* the addresses a0 .. a_{size-1} an insert of k examines, in order
LinearAddresses(k) == [i \in 1..size |-> AttemptAddress(i - 1, k)]

\* C33: under "lineal" the addresses a0, a1, ..., a_{size-1} of a key are
\* pairwise distinct and cover every slot, so an insert of a key that is not
\* in the table fails for want of room exactly when no slot is free.
C33_LinearProbeCoversTable ==
  (size > 0 /\ collisionResolution = "lineal") =>
    \A k \in KeyValues :
      ValidKey(k) =>
        /\ Distinct(LinearAddresses(k))
        /\ {LinearAddresses(k)[i] : i \in 1..size} = 0..(size - 1)
        /\ k \notin StoredKeys(table) =>
             (~insertValueAnimation(k).ok <=> \A i \in 1..size : ~IsNull(table[i]))

\* C33 witness: a table of several slots is full under "lineal" and the insert
\* of a key it does not hold has just failed
C33_Witness ==
  /\ size > 1
  /\ collisionResolution = "lineal"
  /\ message = "error"
  /\ \A i \in 1..size : ~IsNull(table[i])
  /\ \E k \in KeyValues :
       ValidKey(k) /\ k \notin StoredKeys(table) /\ ~insertValueAnimation(k).ok

\* the shape state.collisionResolution requires of a cell that is not empty
ShapeFits(c) ==
  \/ IsNull(c)
  \/ IF collisionResolution \in {"encadenamiento", "anidados"}
     THEN c.t = "list"
     ELSE c.t = "num"

\* C35: whatever the interleaving of suspended insert, search and delete
\* animations with collision-resolution changes and table creation, every
\* non-empty slot of state.table is a list under "encadenamiento" and
\* "anidados" and a single key under "lineal", "cuadratica" and "doble".
C35_SlotsFitCollisionResolution ==
  \A i \in 1..Len(table) : ShapeFits(table[i])

(***************************************************************************)
(* Claims about the binary-search simulator (checked under SpecBin).       *)
(***************************************************************************)
StrictlyAscending(s) == \A i \in 1..(Len(s) - 1) : s[i] < s[i + 1]

\* C36: after any sequence of create, insert and delete, state.data of the
\* binary-search simulator is strictly ascending and holds at most state.size
\* values, and an insert that is refused (structure full, duplicate, wrong
\* width, not a number) leaves state.data as it was.
C36_DataSortedAndBounded ==
  /\ StrictlyAscending(binData)
  /\ Len(binData) <= binSize
  /\ \A raw \in BinRawInputs :
       ~ENABLED (binInsertBtnClickWith(raw)
                   /\ binMessage' = "error" /\ binData' # binData)

\* C36 witness: the structure holds several values, is full, and an insert
\* of a value it does not hold has just been refused or would be
C36_Witness ==
  /\ Len(binData) = binSize
  /\ Len(binData) >= 2
  /\ binMessage = "error"
  /\ \E raw \in BinRawInputs :
       /\ raw.len = binDigits
       /\ raw.val # NaN
       /\ ~Includes(binData, raw.val)
       /\ ~insertValue(raw).ok

\* call i of binarySearchAnimation is suspended in a sleep
Searching(i) == binSearches[i].pc # "idle"

\* a search has just returned to the searchBtn handler
SearchReturned == binFoundIndex # NoneFound

\* C37: a binary search during which state.data was not modified ends, and
\* returns an index that holds the target when the target is in state.data
\* and -1 when it is not.
C37_UndisturbedSearchIsCorrect ==
  /\ []((SearchReturned /\ ~binFoundIndex.modified) =>
          IF Includes(binData, binFoundIndex.target)
          THEN /\ binFoundIndex.index \in 0..(Len(binData) - 1)
               /\ binData[binFoundIndex.index + 1] = binFoundIndex.target
          ELSE binFoundIndex.index = -1)
  /\ \A i \in 1..MaxBinSearches : Searching(i) ~> ~Searching(i)

\* C37 witness: an undisturbed search of a full structure of three values
\* has just returned the index of the last one, found after one halving
C37_Witness ==
  /\ SearchReturned
  /\ ~binFoundIndex.modified
  /\ Len(binData) = 3
  /\ binFoundIndex.index = 2

\* C38: a binary search during whose sleeps insert or delete clicks are
\* handled still ends, and an index i >= 0 it returns holds the target at the
\* moment it returns: state.data[i] = target.
C38_DisturbedSearchReturnsTarget ==
  /\ []((SearchReturned /\ binFoundIndex.index >= 0) =>
          /\ binFoundIndex.index < Len(binData)
          /\ binData[binFoundIndex.index + 1] = binFoundIndex.target)
  /\ \A i \in 1..MaxBinSearches : Searching(i) ~> ~Searching(i)

(***************************************************************************)
(* Claims about the sequential-search client (checked under SpecSeqFair).  *)
(***************************************************************************)
\* the insert handlers whose /insert request has been sent and not answered
InsertsInFlight ==
  Cardinality({i \in 1..Len(seqInserts) : seqInserts[i].pc = "insert"})

\* C39: at most one /insert request is in flight at any time, no step taken
\* while the insert button is disabled starts one, and every insert attempt
\* ends, on success, HTTP error or exception, with the button enabled again.
C39_OneInsertInFlight ==
  /\ [](InsertsInFlight <= 1)
  /\ [][insertDisabled => InsertsInFlight' <= InsertsInFlight]_vars
  /\ (seqInserts # <<>>) ~> (seqInserts = <<>> /\ ~insertDisabled)

\* an attempt whose request failed is over and the button is enabled again
C39_Witness ==
  /\ seqNotify = "insert-error"
  /\ seqInserts = <<>>
  /\ ~insertDisabled

(***************************************************************************)
(* Properties of the /hash engine behind the hash.js client.               *)
(***************************************************************************)
\* key k hashes to a slot occupied by a different key while no resolver is set
Collides(k) ==
  /\ engine.size > 0
  /\ engine.resolver = "none"
  /\ engine.slots[Address(engine, k) + 1].t = "Occupied"
  /\ engine.slots[Address(engine, k) + 1].key # k

AcceptedInput(raw) == raw.len > 0 /\ PaddedLength(raw) = currentDigits

\* C5: with no resolver configured, an insert whose home slot a0 holds a
\* different key fails with CollisionUnresolved carrying a0 and the key, has
\* examined a0 only, and leaves every slot (and the client's mirror) as it
\* was; the client opens the collision menu.
C5_CollisionUnresolved ==
  \A raw \in RawInputs :
    (AcceptedInput(raw) /\ Collides(raw.val)) =>
      LET a0 == Address(engine, raw.val)
          r == Insert(engine, raw.val)
          c == InsertClick(engine, currentState.data, collisionMenu,
                           lastValueAttempt, raw)
      IN /\ r.kind = "CollisionUnresolved"
         /\ r.address = a0
         /\ r.key = raw.val
         /\ r.probed = <<a0>>
         /\ r.slots = engine.slots
         /\ c.kind = "CollisionUnresolved"
         /\ c.engine = engine
         /\ c.data = currentState.data
         /\ c.menu = "flex"

\* the last insert was answered CollisionUnresolved and nothing has changed since
C5_Witness ==
  /\ collisionMenu = "flex"
  /\ notify = "error"
  /\ lastValueAttempt.len > 0
  /\ Collides(lastValueAttempt.val)

\* C6: once an insert has failed with CollisionUnresolved and a set-collision
\* request has succeeded, the retry of that insert is sent and answers
\* success, TableFull or DuplicateKey, never CollisionUnresolved.
C6_RetryNeverUnresolved ==
  (engine.size > 0 /\ collisionMenu = "flex") =>
    \A cType \in ConfiguredResolvers :
      LET o == ApplyCollisionClick(cType)
      IN o.setOk => /\ o.retried
                    /\ o.retry.kind \in {"ok", "TableFull", "DuplicateKey"}

\* the retried key sits at a probed address, away from its home slot
C6_Witness ==
  /\ engine.size > 0
  /\ collisionMenu = "none"
  /\ notify = "success"
  /\ engine.resolver \in {"linear", "quadratic", "double"}
  /\ lastValueAttempt.len > 0
  /\ Search(engine, lastValueAttempt.val)
       \notin {-1, Address(engine, lastValueAttempt.val)}

\* insert(k) has failed with CollisionUnresolved and a retry would fail again
InLoop(k) ==
  /\ collisionMenu = "flex"
  /\ lastValueAttempt.len > 0
  /\ lastValueAttempt.val = k
  /\ engine.size > 0
  /\ Insert(engine, k).kind = "CollisionUnresolved"

\* C7 as stated: the only step after which the failed insert stops failing
\* with CollisionUnresolved is the one that configures a resolver.
C7_OnlySetCollisionEndsLoop ==
  [][\A k \in KeyValues :
       (InLoop(k) /\ (Insert(engine, k).kind # "CollisionUnresolved")')
         => (engine.resolver = "none" /\ engine'.resolver # "none")]_vars

\* C7: a step after which the failed insert stops failing with
\* CollisionUnresolved configures a resolver, or re-creates the table, or
\* replaces the hash function, or deletes the key in the home slot (leaving
\* a Tombstone there); no other step, an insert or a search among them,
\* ends the failure.
C7_LoopEndedOnlyBy ==
  [][\A k \in KeyValues :
       (InLoop(k) /\ (Insert(engine, k).kind # "CollisionUnresolved")')
         => \/ engine.resolver = "none" /\ engine'.resolver # "none"
            \/ \A i \in 1..engine'.size : engine'.slots[i] = Empty
            \/ engine'.hashFn # engine.hashFn
            \/ /\ engine'.size = engine.size
               /\ engine'.slots[Address(engine, k) + 1] = Tombstone]_vars

\* the menu is still open for k, no resolver was set, and k's home slot is free
C7_Witness ==
  /\ collisionMenu = "flex"
  /\ lastValueAttempt.len > 0
  /\ engine.size > 0
  /\ engine.resolver = "none"
  /\ engine.slots[Address(engine, lastValueAttempt.val) + 1] = Tombstone

\* C8: a set-collision whose migration fails leaves the engine (slots, size,
\* digits, hash function, resolver) exactly as before, and the client sends
\* no retry.
C8_MigrationAllOrNothing ==
  engine.size > 0 =>
    \A cType \in ConfiguredResolvers :
      ~SetCollision(engine, cType).ok =>
        /\ SetCollision(engine, cType).engine = engine
        /\ ~ApplyCollisionClick(cType).retried
        /\ ApplyCollisionClick(cType).retry.engine = engine

\* a chained table holding more keys than slots was refused an open-addressing
\* resolver
C8_Witness ==
  /\ engine.size > 0
  /\ notify = "error"
  /\ engine.resolver = "chaining"
  /\ Len(LiveKeys(engine.slots)) > engine.size
  /\ \E cType \in ConfiguredResolvers : ~SetCollision(engine, cType).ok

\* the keys the engine holds
EngineKeys == {LiveKeys(engine.slots)[i] : i \in 1..Len(LiveKeys(engine.slots))}

\* key k is absent and its home slot is a Tombstone, outside chaining
HomeIsTombstone(k) ==
  /\ engine.size > 0
  /\ engine.resolver # "chaining"
  /\ k \notin EngineKeys
  /\ engine.slots[Address(engine, k) + 1] = Tombstone

C14_NoPartialMigrationObservable ==
  /\ [](migration.phase = "building" =>
          /\ State(engine) = State(migration.before)
          /\ \A k \in KeyValues :
               Len(NumStr(k)) <= engine.digits =>
                 Search(engine, k) = Search(migration.before, k))
  /\ [][(migration.phase = "building" /\ migration'.phase = "idle") =>
          LET done == SetCollision(migration.before, migration.aside.resolver)
          IN engine' = done.engine]_vars
  /\ [][engine' # engine =>
          (migration.phase = "idle" \/ migration'.phase = "idle")]_vars

\* a migration is half done: some keys rebuilt aside, some still to come
C14_Witness ==
  /\ migration.phase = "building"
  /\ migration.pending # <<>>
  /\ Len(LiveKeys(migration.aside.slots)) > 0
  /\ migration.aside.slots # engine.slots

\* C20: a set-hash request with Truncation parameters holding n <= 0 or a
\* position outside [1, D] fails with InvalidConfig and leaves the engine
\* as it was, and a create click whose truncation form is refused by the
\* page or by the engine leaves the previously active hash function active.
TypedParams(f) ==
  IF f.hType # "truncation" THEN [type |-> f.hType]
  ELSE IF f.method = "first" THEN [type |-> "truncation", n |-> f.n]
  ELSE [type |-> "truncation", positions |-> f.positions]

C20_BadTruncationKeepsHash ==
  /\ \A f \in HashForms :
       BadParams(engine, TypedParams(f)) =>
         SetHash(engine, TypedParams(f)) = [ok |-> FALSE, engine |-> engine]
  /\ \A f \in HashForms, sizeIn \in SizeInputs, digitsIn \in DigitsInputs :
       (FormRejected(f) \/ BadParams(engine, SetHashBody(f))) =>
         ~ENABLED (/\ HashCreateClickWith(f, sizeIn, digitsIn)
                   /\ engine'.hashFn # engine.hashFn)

\* a table whose active function is a truncation by positions, right after
\* a create click was refused
C20_Witness ==
  /\ engine.size > 0
  /\ engine.hashFn = [type |-> "truncation", positions |-> <<1>>]
  /\ notify = "error"
  /\ \E f \in HashForms : BadParams(engine, SetHashBody(f))

\* the keys a caller of the engine can send
EngineKey(k) == Len(NumStr(k)) <= engine.digits

\* C24: with no resolver configured, a search looks at the home slot only: it
\* returns the home address exactly when that slot is Occupied by the key,
\* and the empty result when the home slot holds another key, is Empty or a
\* Tombstone, also when the key is stored in some other slot.
C24_SearchWithoutResolver ==
  (engine.size > 0 /\ engine.resolver = "none") =>
    \A k \in KeyValues :
      EngineKey(k) =>
        LET a0 == Address(engine, k)
            home == engine.slots[a0 + 1]
        IN /\ (home.t = "Occupied" /\ home.key = k) => Search(engine, k) = a0
           /\ ~(home.t = "Occupied" /\ home.key = k) => Search(engine, k) = -1
           /\ Search(engine, k) \in {a0, -1}

\* no resolver is configured, a key is stored away from its present home slot
\* (the hash function was replaced after the insert), and the search misses it
C24_Witness ==
  /\ engine.size > 0
  /\ engine.resolver = "none"
  /\ \E k \in KeyValues :
       /\ EngineKey(k)
       /\ \E i \in 1..engine.size :
            i # Address(engine, k) + 1 /\ engine.slots[i] = Occupied(k)
       /\ Search(engine, k) = -1

\* the keys ks inserted one after the other through insert()
RECURSIVE InsertEach(_, _)
InsertEach(e, ks) ==
  IF Len(ks) = 0 THEN e
  ELSE InsertEach([e EXCEPT !.slots = Insert(e, Head(ks)).slots], Tail(ks))

\* the table built from e by visiting the slots old[i], old[i+1], ... in
\* ascending index and inserting the keys each one holds
RECURSIVE RebuildFrom(_, _, _)
RebuildFrom(e, old, i) ==
  IF i > Len(old) THEN e
  ELSE RebuildFrom(InsertEach(e, SlotKeys(old[i])), old, i + 1)

\* size Empty slots under the new resolver, then the live keys of e inserted
\* in ascending order of the slot they occupied
RebuiltUnder(e, resolver) ==
  RebuildFrom([e EXCEPT !.resolver = resolver,
                        !.slots = [i \in 1..e.size |-> Empty]],
              e.slots, 1)

HoldsLiveKey(e) == \E i \in 1..e.size : e.slots[i].t \in {"Occupied", "Bucket"}

\* C25: a set-collision that succeeds on a table holding keys yields exactly
\* the slot array obtained from size Empty slots under the new resolver by
\* inserting the live keys, through insert, in ascending order of the slot
\* they occupied; no Tombstone survives; and the migration served in steps
\* publishes that same array when it commits.
C25_MigrationRebuildsInSlotOrder ==
  /\ [](\A resolver \in ConfiguredResolvers :
          (engine.size > 0 /\ HoldsLiveKey(engine)
             /\ SetCollision(engine, resolver).ok) =>
            /\ SetCollision(engine, resolver).engine
                 = RebuiltUnder(engine, resolver)
            /\ \A i \in 1..engine.size :
                 SetCollision(engine, resolver).engine.slots[i] # Tombstone)
  /\ [][SrvSetCollisionCommit =>
          engine' = RebuiltUnder(migration.before,
                                 migration.aside.resolver)]_vars

\* a table holding two keys and a Tombstone, for which a set-collision
\* succeeds and yields an array in which the order of reinsertion shows (a
\* key sits away from its home slot)
C25_Witness ==
  /\ migration = Idle
  /\ engine.size > 0
  /\ \E i \in 1..engine.size : engine.slots[i] = Tombstone
  /\ \E resolver \in ConfiguredResolvers :
       /\ SetCollision(engine, resolver).ok
       /\ Len(LiveKeys(engine.slots)) >= 2
       /\ SetCollision(engine, resolver).engine.slots # engine.slots
       /\ \E i \in 1..engine.size :
            LET slot == SetCollision(engine, resolver).engine.slots[i]
            IN slot.t = "Occupied"
                 /\ Address(engine, slot.key) # i - 1

\* the table a create click has just made has function h active, and an
\* insert of any key lands at the address h gives it
ActiveAfterCreate(h, sizeIn, digitsIn) ==
  /\ engine'.hashFn = h
  /\ \A k \in KeyValues :
       Len(NumStr(k)) <= digitsIn =>
         /\ Insert(engine', k).kind = "ok"
         /\ Insert(engine', k).address =
              Address([size |-> sizeIn, digits |-> digitsIn, hashFn |-> h], k)

\* C28: when the create click sends a set-hash that the engine accepts and
\* then create, the function of that set-hash is the active one after the
\* create, and the first insert into the new table is placed at the address
\* that function gives.
C28_HashSetBeforeCreateStays ==
  \A f \in HashForms, sizeIn \in 1..MaxSize, digitsIn \in 1..MaxDigits :
    (~FormRejected(f) /\ SetHash(engine, SetHashBody(f)).ok) =>
      ~ENABLED (/\ HashCreateClickWith(f, sizeIn, digitsIn)
                /\ ~ActiveAfterCreate(SetHashBody(f), sizeIn, digitsIn))

\* folding was chosen in the create form and the first key inserted since, 1,
\* sits at the address folding gives it (0), not at the one of the default
\* function (1)
C28_Witness ==
  /\ engine.size = 2
  /\ engine.hashFn = [type |-> "folding"]
  /\ LiveKeys(engine.slots) = <<1>>
  /\ engine.slots[1] = Occupied(1)
  /\ notify = "success"

\* C29: whenever an applied collision strategy makes the client send the
\* insert again, the key it sends is the key of the insert whose collision
\* answer opened the collision menu.
C29_RetryIsTheCollidedKey ==
  [][AsyncApplyAnswerOk => lastValueAttempt = menuOpenedBy]_vars

\* C34: the mirror the hash.js client draws, currentState.data, equals the
\* data state() of the engine returns, after every completed create,
\* successful insert (the retry after a set-collision included) and
\* successful delete.
C34_MirrorEqualsServerState ==
  [][((HashCreateClick \/ HashInsertClick \/ HashApplyCollisionClick
         \/ HashDeleteClick) /\ notify' = "success")
       => currentState'.data = State(engine').data]_vars

Spec == Init /\ [][Next]_vars

SpecClient == Init /\ [][ClientNext]_vars

SpecServer == Init /\ [][ServerNext]_vars
SpecAsync == Init /\ [][AsyncNext]_vars
SpecHash == HashInit /\ [][applyHashFunctionCall]_vars
SpecAnim == Init /\ [][AnimNext]_vars
SpecBin == Init /\ [][BinNext]_vars
SpecBinFair ==
  SpecBin /\ \A i \in 1..MaxBinSearches :
              /\ WF_vars(binarySearchLoopOf(i))
              /\ WF_vars(binarySearchCompareOf(i))
              /\ WF_vars(binarySearchNotFoundOf(i))

SpecSeq == Init /\ [][SeqNext]_vars
SpecSeqFair ==
  SpecSeq /\ WF_vars(seqInsertAnswered) /\ WF_vars(seqErrorDetail)
    /\ WF_vars(seqStateAnswered) /\ WF_vars(seqStateBody)
    /\ WF_vars(seqScanStep) /\ WF_vars(seqScanEnd)

====
